---- MODULE Spec2Model ----
(***************************************************************************)
(* Model of the front-end code detection step: runStep (index.ts) drives   *)
(* performESLintCheck (eslint.ts), performTypeScriptCheck (typescript.ts)  *)
(* and performTypeScriptCoverageCheck (typescript-coverage.ts), one after  *)
(* the other, and exits with the aggregate verdict.                        *)
(*                                                                         *)
(* Strings the program inspects (paths, patterns) are sequences of tokens, *)
(* cut so that every startsWith / endsWith / includes test of the code     *)
(* falls on token boundaries.  Branch names are plain strings, "" standing *)
(* for both the empty string and undefined (both falsy in the code).       *)
(***************************************************************************)
EXTENDS Integers, Sequences, FiniteSets, TLC

VARIABLES
  cfg,            \* IParams as read by getParams, plus the state of the project directory
  repo,           \* the git repository: objects, parents, trees, refs
  tsconfig,       \* tsconfig.json of the project: "present", "absent", "unknown" until looked for
  pkg,            \* package.json of the project: <<manifest>>, << >> until read
  pc,             \* position of runStep (and of the checker it awaits)
  inflight,       \* external operations started and not yet completed
  ops,            \* history: the external operations of the stage under way, in order
  loc,            \* locals of the checker being awaited
  checkedFiles,   \* runStep: file list handed from ESLint to TypeScript
  hasErrors,      \* runStep
  totalErrors,    \* runStep
  totalWarnings,  \* runStep
  checkResults,   \* runStep: one summary entry per checker
  outcomes,       \* history: what each checker returned or threw
  summary,        \* TRUE once the summary block has been printed
  exitCode        \* <<code>> once the process has exited, << >> while it runs

vars == <<cfg, repo, tsconfig, pkg, pc, inflight, ops, loc, checkedFiles, hasErrors,
          totalErrors, totalWarnings, checkResults, outcomes, summary,
          exitCode>>

(***************************************************************************)
(* Bounds                                                                  *)
(***************************************************************************)
\* commits added to mainline after the feature branch was cut
MaxAdvance == 1
\* lines of output of an external tool
MaxLines == 1
\* paths in a list handed to a scope filter on its own
MaxFiles == 2
\* chunks of output the flow-cli child writes before it closes
MaxChunks == 2


(***************************************************************************)
(* JavaScript string and array primitives on token sequences               *)
(***************************************************************************)
StartsWith(s, p) == Len(p) <= Len(s) /\ SubSeq(s, 1, Len(p)) = p

EndsWith(s, p) == Len(p) <= Len(s) /\ SubSeq(s, Len(s) - Len(p) + 1, Len(s)) = p

Includes(s, p) == \E i \in 1..(Len(s) - Len(p) + 1) : SubSeq(s, i, i + Len(p) - 1) = p

\* a || b on strings
Or(a, b) == IF a = "" THEN b ELSE a

Range(s) == {s[i] : i \in DOMAIN s}

RECURSIVE FlatMap(_, _)
FlatMap(F(_), s) == IF s = <<>> THEN <<>> ELSE F(Head(s)) \o FlatMap(F, Tail(s))

(***************************************************************************)
(* Paths of the project                                                    *)
(***************************************************************************)
SrcA == <<"src", "/", "a", ".", "ts">>
SrcBTest == <<"src", "/", "b", ".", "test", ".", "ts">>
SrcC == <<"src", "/", "c", ".", "js">>
SrcOld == <<"src", "/", "old", ".", "ts">>
DocsReadme == <<"docs", "/", "readme", ".", "md">>

\* git lists the paths of a diff in this (byte) order
PathOrder == <<DocsReadme, SrcA, SrcBTest, SrcC, SrcOld>>
Paths == Range(PathOrder)

(***************************************************************************)
(* The repository (VersionControlGateway).  A commit is a pair; a revision *)
(* argument is a commit hash or a ref name such as origin/<branch>.        *)
(***************************************************************************)
NoCommit == <<"none", 0>>
CommitA == <<"A", 0>>
CommitB == <<"B", 0>>
CommitM == <<"M", 0>>
CommitD == <<"D", 0>>
CommitO == <<"O", 0>>
MainCommit(i) == IF i = 0 THEN CommitA ELSE <<"m", i>>

\* revision arguments of a git command
CommitRev(c) == [kind |-> "commit", commit |-> c, name |-> << >>]
OriginRef(branch) == [kind |-> "ref", commit |-> NoCommit, name |-> <<"origin", branch>>]
LocalRef(branch) == [kind |-> "ref", commit |-> NoCommit, name |-> <<branch>>]
HeadRef == [kind |-> "ref", commit |-> NoCommit, name |-> <<"HEAD">>]

\* tree of the commit the feature branch was cut from: path -> blob version, 0 = absent
BaseTree == [p \in Paths |-> IF p = SrcBTest THEN 0 ELSE 1]

\* what the feature branch changes: path -> new blob version
FeatChanges ==
  { [p \in {SrcA, SrcOld} |-> IF p = SrcA THEN 2 ELSE 0],
    [p \in {SrcBTest, DocsReadme} |-> IF p = SrcBTest THEN 1 ELSE 9],
    [p \in {DocsReadme} |-> 9] }

\* what the second merged branch changes
OtherChange == [p \in {SrcC} |-> 5]

Apply(tree, change) == [p \in Paths |-> IF p \in DOMAIN change THEN change[p] ELSE tree[p]]

\* the i-th mainline commit after A touches the docs and src/c.js
MainTree(i) == IF i = 0 THEN BaseTree
               ELSE [p \in Paths |-> IF p \in {DocsReadme, SrcC} THEN 1 + i ELSE BaseTree[p]]

Shapes == {"merge", "linear"}

\* History: mainline A, m1..m_adv; feature A -> B; deploy = mainline tip plus
\* either the merge commit M = [mainline tip, B] or, with no merge at all, a
\* plain commit D carrying the same change.  In the shape "octopus" M merges a
\* second branch A -> O as well: M = [mainline tip, B, O].
Repo(adv, shape, change) ==
  LET tip == IF shape = "linear" THEN CommitD ELSE CommitM
      mains == {MainCommit(i) : i \in 0..adv}
      objs == mains \cup {CommitB, tip} \cup (IF shape = "octopus" THEN {CommitO} ELSE {})
  IN [ objects |-> objs,
       parents |-> [c \in objs |->
                      IF c = CommitA THEN << >>
                      ELSE IF c \in {CommitB, CommitO} THEN <<CommitA>>
                      ELSE IF c = CommitM /\ shape = "octopus"
                        THEN <<MainCommit(adv), CommitB, CommitO>>
                      ELSE IF c = CommitM THEN <<MainCommit(adv), CommitB>>
                      ELSE IF c = CommitD THEN <<MainCommit(adv)>>
                      ELSE <<MainCommit(c[2] - 1)>>],
       tree |-> [c \in objs |->
                      IF c \in {CommitB} THEN Apply(BaseTree, change)
                      ELSE IF c = CommitO THEN Apply(BaseTree, OtherChange)
                      ELSE IF c = CommitM /\ shape = "octopus"
                        THEN Apply(Apply(MainTree(adv), change), OtherChange)
                      ELSE IF c \in {CommitM, CommitD} THEN Apply(MainTree(adv), change)
                      ELSE MainTree(c[2])],
       refs |-> [r \in {OriginRef("master"), OriginRef("deploy"), OriginRef("feat"),
                        LocalRef("deploy"), HeadRef} |->
                      IF r = OriginRef("master") THEN MainCommit(adv)
                      ELSE IF r = OriginRef("feat") THEN CommitB
                      ELSE tip] ]

Repos == {Repo(adv, shape, change) : adv \in 0..MaxAdvance, shape \in Shapes, change \in FeatChanges}

\* the same histories, and those whose deploy tip is an octopus merge
OctopusRepos == {Repo(adv, "octopus", change) : adv \in 0..MaxAdvance, change \in FeatChanges}

\* rev-parse of one revision argument: a commit, or NoCommit when git cannot resolve it
Resolve(r, rev) ==
  IF rev.kind = "commit" THEN (IF rev.commit \in r.objects THEN rev.commit ELSE NoCommit)
  ELSE IF rev \in DOMAIN r.refs THEN r.refs[rev] ELSE NoCommit

RECURSIVE Ancestors(_, _)
Ancestors(r, c) == {c} \cup UNION {Ancestors(r, r.parents[c][i]) : i \in DOMAIN r.parents[c]}

\* git log --merges --first-parent <tip> -n 1
RECURSIVE FirstParentMerge(_, _)
FirstParentMerge(r, c) ==
  IF Len(r.parents[c]) >= 2 THEN c
  ELSE IF r.parents[c] = << >> THEN NoCommit
  ELSE FirstParentMerge(r, r.parents[c][1])

\* a base taken to be the tip of the first revision, as a diff against the mainline would
TipAsBase(r, x, y) == {x}

\* git merge-base x y: the common ancestors no other common ancestor descends from
MergeBases(r, x, y) ==
  LET common == Ancestors(r, x) \cap Ancestors(r, y)
  IN {c \in common : \A d \in common \ {c} : c \notin Ancestors(r, d)}

\* git diff --name-only x y: the paths whose blobs differ, in path order
DiffPaths(r, x, y) == SelectSeq(PathOrder, LAMBDA p : r.tree[x][p] # r.tree[y][p])

\* the text git prints: one path per line and a final newline
NameOnlyOutput(paths) == paths \o << << >> >>

\* diff.trim().split('\n').filter(file => file.length > 0)
SplitLines(out) == SelectSeq(out, LAMBDA line : Len(line) > 0)

\* git show <c> --pretty=format:%P, split(' '): the parent hashes, or one empty token
ShowParentsOutput(r, c) == IF r.parents[c] = << >> THEN << << >> >> ELSE r.parents[c]

\* show.split(' ').filter(p => p.trim())
SplitParents(out) == SelectSeq(out, LAMBDA p : Len(p) > 0)

\* an existence test that never looks at the disk
ExistsAlways(r, path) == TRUE

\* files on disk under the project root: the checked-out tree
Exists(r, path) ==
  /\ Resolve(r, HeadRef) # NoCommit
  /\ path \in DOMAIN r.tree[Resolve(r, HeadRef)]
  /\ r.tree[Resolve(r, HeadRef)][path] # 0

(***************************************************************************)
(* eslint.ts: scope of the ESLint check                                    *)
(***************************************************************************)
Ext(e) == <<".", e>>
frontendExtensions == <<Ext("js"), Ext("ts"), <<".", "js", "x">>, <<".", "ts", "x">>, Ext("vue")>>

\* a directory test every file passes
InAnyDirectory(file, checkDirectories) == TRUE

\* checkDirectories.some(dir => file.startsWith(dir + '/') || file.startsWith(dir + '\\'))
InCheckDirectory(file, checkDirectories) ==
  \E i \in DOMAIN checkDirectories :
     \/ StartsWith(file, checkDirectories[i] \o <<"/">>)
     \/ StartsWith(file, checkDirectories[i] \o <<"\\">>)

\* a filter that returns the kept paths relative to their check directory
filterFrontendFilesRelative(files, r, checkDirectories) ==
  LET isFrontend(file) == \E i \in DOMAIN frontendExtensions : EndsWith(file, frontendExtensions[i])
      byExt == SelectSeq(files, isFrontend)
      byDir == SelectSeq(byExt, LAMBDA file : InCheckDirectory(file, checkDirectories))
      kept == SelectSeq(byDir, LAMBDA file : Exists(r, file))
      dirOf(file) == CHOOSE i \in DOMAIN checkDirectories :
                       StartsWith(file, checkDirectories[i] \o <<"/">>)
                         \/ StartsWith(file, checkDirectories[i] \o <<"\\">>)
  IN [i \in DOMAIN kept |->
        SubSeq(kept[i], Len(checkDirectories[dirOf(kept[i])]) + 2, Len(kept[i]))]

filterFrontendFiles(files, r, checkDirectories) ==
  LET isFrontend(file) == \E i \in DOMAIN frontendExtensions : EndsWith(file, frontendExtensions[i])
      byExt == SelectSeq(files, isFrontend)
      byDir == SelectSeq(byExt, LAMBDA file : InCheckDirectory(file, checkDirectories))
  IN SelectSeq(byDir, LAMBDA file : Exists(r, file))

\* patterns listed extension by extension instead of directory by directory
getFullCheckFilesByExtension(checkDirectories) ==
  LET extensions == <<Ext("js"), Ext("ts"), <<".", "js", "x">>, <<".", "ts", "x">>, Ext("vue")>>
      patternsOf(ext) == [i \in DOMAIN checkDirectories |->
                            checkDirectories[i] \o <<"/", "**", "/", "*">> \o ext]
  IN FlatMap(patternsOf, extensions)

getFullCheckFiles(checkDirectories) ==
  LET extensions == <<Ext("js"), Ext("ts"), <<".", "js", "x">>, <<".", "ts", "x">>, Ext("vue")>>
      patternsOf(dir) == [i \in DOMAIN extensions |-> dir \o <<"/", "**", "/", "*">> \o extensions[i]]
  IN FlatMap(patternsOf, checkDirectories)

(***************************************************************************)
(* typescript.ts: scope of the TypeScript check                            *)
(***************************************************************************)
typeScriptExtensions == <<Ext("ts"), <<".", "ts", "x">>, Ext("vue")>>

excludePatterns == << <<"node_modules", "/">>, <<"lib", "/">>, <<"dist", "/">>,
                      <<".", "test", ".", "ts">>, <<".", "spec", ".", "ts">>, <<"test", "/">> >>

\* an exclusion test that excludes nothing
shouldExcludeNothing(file) == FALSE

shouldExclude(file) ==
  \E i \in DOMAIN excludePatterns :
     LET pattern == excludePatterns[i]
     IN IF EndsWith(pattern, <<"/">>)
        THEN StartsWith(file, pattern) \/ Includes(file, <<"/">> \o pattern)
        ELSE Includes(file, pattern)

filterTypeScriptFiles(files, r, checkDirectories) ==
  LET isTypeScript(file) == \E i \in DOMAIN typeScriptExtensions : EndsWith(file, typeScriptExtensions[i])
      byExt == SelectSeq(files, isTypeScript)
      kept == SelectSeq(byExt, LAMBDA file : ~shouldExclude(file))
      byDir == SelectSeq(kept, LAMBDA file : InCheckDirectory(file, checkDirectories))
  IN SelectSeq(byDir, LAMBDA file : Exists(r, file))

(***************************************************************************)
(* External tools: what a run of eslint / tsc / the coverage script gives  *)
(* back to execa: an exit code and the captured output, a sequence of      *)
(* lines; execa rejects when the exit code is not 0.                       *)
(***************************************************************************)
Count(s, P(_)) == Len(SelectSeq(s, P))

SeqsUpTo(S, n) == UNION {[1..k -> S] : k \in 0..n}

ExitCodes == {0, 1, 2}

\* error.message of a rejected execa call
FailedMessage == << <<"Command failed">> >>

\* the ", line N, col M, " part of a line in ESLint's compact format
LineCol == ": line 1, col 2, "

ESLintLines ==
  { <<"f", LineCol, "Error -", "m">>,
    <<"f", LineCol, "Warning -", "m">>,
    <<"Error -", "m">>,
    <<"Warning -", "m">>,
    <<"Error -", "Warning -">>,
    <<"Oops">>,
    << >> }

ESLintRuns == [exit : ExitCodes, stdout : SeqsUpTo(ESLintLines, MaxLines)]

\* /:\s*line\s+\d+,\s*col\s+\d+,\s*Error\s*-/.test(line), and the same for Warning
StrictError(line) == Includes(line, <<LineCol, "Error -">>)
StrictWarning(line) == Includes(line, <<LineCol, "Warning -">>)

\* the two counting passes of runESLintCheck's catch block
parseESLintOutput(lines) ==
  LET errors == Count(lines, LAMBDA l : Len(l) > 0 /\ StrictError(l))
      warnings == Count(lines, LAMBDA l : Len(l) > 0 /\ ~StrictError(l) /\ StrictWarning(l))
  IN IF errors = 0 /\ warnings = 0
     THEN [errorCount |-> Count(lines, LAMBDA l : Includes(l, <<"Error -">>)),
           warningCount |-> Count(lines, LAMBDA l : Includes(l, <<"Warning -">>))]
     ELSE [errorCount |-> errors, warningCount |-> warnings]

\* a result whose success is the tool's exit status
runESLintCheckByExit(files, run) ==
  LET output == IF run.stdout = << >> THEN FailedMessage ELSE run.stdout
      counts == IF run.exit = 0 THEN [errorCount |-> 0, warningCount |-> 0]
                ELSE parseESLintOutput(output)
  IN [success |-> run.exit = 0, checkedFiles |-> files,
      errorCount |-> counts.errorCount, warningCount |-> counts.warningCount]

\* runESLintCheck once execa has settled
runESLintCheck(files, run) ==
  IF run.exit = 0
  THEN [success |-> TRUE, checkedFiles |-> files, errorCount |-> 0, warningCount |-> 0]
  ELSE LET output == IF run.stdout = << >> THEN FailedMessage ELSE run.stdout
           counts == parseESLintOutput(output)
       IN [success |-> counts.errorCount = 0, checkedFiles |-> files,
           errorCount |-> counts.errorCount, warningCount |-> counts.warningCount]

\* results performESLintCheck returns without running the tool
ESLintNothing == [success |-> TRUE, checkedFiles |-> << >>, errorCount |-> 0, warningCount |-> 0]

TsPos == "(1,2)"
TsError(file) == file \o <<TsPos, ": error TS", "2322">>
TsWarning(file) == file \o <<TsPos, ": warning TS", "6133">>

TypeScriptLines ==
  { TsError(SrcA), TsError(SrcBTest), TsWarning(SrcA),
    <<"error TS", "5023">>,
    <<"Found ", "2", " error">>,
    << >> }

TypeScriptRuns == [exit : ExitCodes, stdout : SeqsUpTo(TypeScriptLines, MaxLines)]

Max(a, b) == IF a >= b THEN a ELSE b

\* parseInt(match[1], 10)
ParseInt(digits) == CHOOSE n \in 0..9 : ToString(n) = digits

\* line.match(/Found (\d+) error/): the number found, or -1
FoundErrors(line) ==
  LET at == {i \in 1..(Len(line) - 2) :
               /\ line[i] = "Found "
               /\ line[i + 1] \in {ToString(n) : n \in 0..9}
               /\ line[i + 2] = " error"}
  IN IF at = {} THEN -1 ELSE ParseInt(line[(CHOOSE i \in at : \A j \in at : i <= j) + 1])

RECURSIVE parseTypeScriptLines(_, _, _)
parseTypeScriptLines(lines, errorCount, warningCount) ==
  IF lines = << >> THEN [errorCount |-> errorCount, warningCount |-> warningCount]
  ELSE LET line == Head(lines)
       IN IF Includes(line, <<": error TS">>)
          THEN parseTypeScriptLines(Tail(lines), errorCount + 1, warningCount)
          ELSE IF Includes(line, <<": warning TS">>)
          THEN parseTypeScriptLines(Tail(lines), errorCount, warningCount + 1)
          ELSE IF FoundErrors(line) >= 0
          THEN parseTypeScriptLines(Tail(lines), Max(errorCount, FoundErrors(line)), warningCount)
          ELSE parseTypeScriptLines(Tail(lines), errorCount, warningCount)

parseTypeScriptOutput(output) == parseTypeScriptLines(output, 0, 0)

\* line.match(/^([^(]+)\(\d+,\d+\):\s*(error|warning)/): the file named, or << >>
ReportedFile(line) ==
  LET at == {i \in 2..(Len(line) - 1) :
               /\ line[i] = TsPos
               /\ line[i + 1] \in {": error TS", ": warning TS"}
               /\ \A j \in 1..(i - 1) : line[j] # TsPos}
  IN IF at = {} THEN << >> ELSE SubSeq(line, 1, (CHOOSE i \in at : TRUE) - 1)

\* runTypeScriptCheck once execa has settled
runTypeScriptCheck(filesToCheck, fullCheck, run) ==
  IF run.exit = 0
  THEN [success |-> TRUE, errorCount |-> 0, warningCount |-> 0,
        checkedFiles |-> IF fullCheck THEN -1 ELSE Len(filesToCheck)]
  ELSE LET output == IF run.stdout = << >> THEN FailedMessage ELSE run.stdout
           counts == parseTypeScriptOutput(output)
           fileSet == {ReportedFile(output[i]) : i \in DOMAIN output} \ {<< >>}
       IN [success |-> counts.errorCount = 0,
           errorCount |-> counts.errorCount, warningCount |-> counts.warningCount,
           checkedFiles |-> IF fullCheck THEN -1 ELSE Cardinality(fileSet)]

\* results runTypeScriptCheck returns without running the tool
TypeScriptNothing == [success |-> TRUE, errorCount |-> 0, warningCount |-> 0, checkedFiles |-> 0]

CoverageRuns == [exit : ExitCodes, hasOutput : BOOLEAN]

(***************************************************************************)
(* index.ts: what runStep derives from the parameters                      *)
(***************************************************************************)
Flags == {"true", "false"}

enableESLintCheck == cfg.enableESLintCheck = "true"
\* a TypeScript check that no parameter switches off
typeScriptCheckAlways == TRUE
enableTypeScriptCheck == cfg.enableTypeScriptCheck = "true"
enableTypeScriptCoverageReport == cfg.enableTypeScriptCoverageReport = "true"
envBranchDeployMode == cfg.envBranchDeployMode = "true"
fullCheckMode == cfg.fullCheckMode = "true"
fullTypeScriptCheckMode == cfg.fullTypeScriptCheckMode = "true"

\* a source branch that branch-deploy mode does not discard
ResolveSourceBranchKept(param, ciCommitRefName, gitBranch, deployMode) ==
  LET given == Or(param, "*")
  IN IF given = "*" THEN Or(ciCommitRefName, Or(gitBranch, "")) ELSE given

\* lines 651-661: '*' and empty mean the current ref; ignored in branch-deploy mode
ResolveSourceBranch(param, ciCommitRefName, gitBranch, deployMode) ==
  LET given == Or(param, "*")
      current == IF given = "*" THEN Or(ciCommitRefName, Or(gitBranch, "")) ELSE given
  IN IF deployMode THEN "" ELSE current

sourceBranch ==
  ResolveSourceBranch(cfg.sourceBranch, cfg.ciCommitRefName, cfg.gitBranch, envBranchDeployMode)

targetBranch == Or(cfg.targetBranch, "master")

\* checkDirectoriesRaw.split(/[\n\r]+/).map(trim).filter(nonempty), 'src' by default
checkDirectories ==
  LET raw == IF cfg.checkDirectories = << >> THEN << <<"src">> >> ELSE cfg.checkDirectories
      trim(dir) == SelectSeq(dir, LAMBDA t : t # " ")
      trimmed == [i \in DOMAIN raw |-> trim(raw[i])]
  IN SelectSeq(trimmed, LAMBDA dir : Len(dir) > 0)

\* parseInt(params.typeScriptCoverageThreshold || '90')
typeScriptCoverageThreshold ==
  IF cfg.typeScriptCoverageThreshold = "" THEN 90 ELSE cfg.typeScriptCoverageThreshold

(***************************************************************************)
(* The run                                                                 *)
(***************************************************************************)
Checkers == <<"ESLint", "TypeScript", "Coverage">>

Configs ==
  [ enableESLintCheck : Flags,
    enableTypeScriptCheck : Flags,
    enableTypeScriptCoverageReport : Flags,
    envBranchDeployMode : Flags,
    fullCheckMode : Flags,
    fullTypeScriptCheckMode : Flags,
    sourceBranch : {"*", "feat"},
    targetBranch : {""},
    ciCommitRefName : {"", "deploy"},
    gitBranch : {""},
    checkDirectories : {<< >>},
    typeScriptCoverageThreshold : {""} ]

\* package.json: absent, or present with or without the reporting tool declared
\* scripts is the set of <<name, command>> entries, typeCoverage is << >> or the one
\* block, other stands for every other key of the file
Manifests ==
  { [exists |-> FALSE, devDependency |-> FALSE, scripts |-> {}, typeCoverage |-> << >>,
     other |-> "none"],
    [exists |-> TRUE, devDependency |-> FALSE, scripts |-> {<<"build", "vite build">>},
     typeCoverage |-> << >>, other |-> "app"],
    [exists |-> TRUE, devDependency |-> TRUE,
     scripts |-> {<<"build", "vite build">>, <<"ts-coverage", "type-coverage">>},
     typeCoverage |-> <<[atLeast |-> 80, detail |-> FALSE, strict |-> FALSE, cache |-> FALSE,
                        ignoreFiles |-> "custom"]>>,
     other |-> "app"] }

\* fs.existsSync of a file nothing in the run creates or removes: decided when first looked for
ExistsSync(file) == IF file = "unknown" THEN {"present", "absent"} ELSE {file}

NoLocals ==
  [ changedFiles |-> << >>, filesToCheck |-> << >>, fellBack |-> FALSE,
    mergeCommit |-> NoCommit, devEnd |-> NoCommit, baseCommit |-> NoCommit,
    result |-> << >>, error |-> "" ]

NoOutcome == [kind |-> "none", success |-> TRUE, errorCount |-> 0, warningCount |-> 0, message |-> ""]

Init ==
  /\ cfg \in Configs
  /\ repo \in Repos
  /\ tsconfig = "unknown"
  /\ pkg = << >>
  /\ pc = "chdir"
  /\ inflight = {}
  /\ ops = << >>
  /\ loc = NoLocals
  /\ checkedFiles = << >>
  /\ hasErrors = FALSE
  /\ totalErrors = 0
  /\ totalWarnings = 0
  /\ checkResults = << >>
  /\ outcomes = [c \in Range(Checkers) |-> NoOutcome]
  /\ summary = FALSE
  /\ exitCode = << >>

runState == <<checkedFiles, hasErrors, totalErrors, totalWarnings, checkResults, outcomes,
              summary, exitCode>>

Op(by, op, args, ok) == [by |-> by, op |-> op, args |-> args, ok |-> ok]

\* a promise that is fired and not awaited: the operation is still running when the caller goes on
NotAwaited(pending, op) == pending

\* a promise that is awaited: the caller goes on only once the operation has settled
Settled(pending, op) == pending \ {op}

\* start an external operation and suspend until it settles
Call(op, waiting) ==
  /\ pc' = waiting
  /\ inflight' = inflight \cup {op}
  /\ UNCHANGED <<cfg, repo, tsconfig, pkg, ops, loc, runState>>

\* the operation settles and the awaiting code resumes at `next`
Return(op, entries, next) ==
  /\ op \in inflight
  /\ inflight' = Settled(inflight, op)
  /\ ops' = ops \o entries
  /\ pc' = next

\* step.warning / step.error of a resolver, kept in the history
Diag(by, level, text) == Op(by, level, <<text>>, TRUE)

\* process.exit(code)
Exit(code) == exitCode' = <<code>> /\ pc' = "exited"

\* process.chdir(params.projectDir): a missing directory rejects runStep, exit(-1)
Chdir ==
  /\ pc = "chdir"
  /\ \E ok \in BOOLEAN :
       IF ok THEN pc' = "script" /\ exitCode' = exitCode
             ELSE Exit(255)
  /\ UNCHANGED <<cfg, repo, tsconfig, pkg, inflight, ops, loc, checkedFiles, hasErrors,
                 totalErrors, totalWarnings, checkResults, outcomes, summary>>

\* util.ts runUserScript: an absent or blank script is skipped
UserScripts == {<< >>, <<" ">>, <<"build">>}

ScriptIsBlank(userScript) == SelectSeq(userScript, LAMBDA t : t # " ") = << >>

UserScriptSkip ==
  /\ pc = "script"
  /\ \E userScript \in UserScripts : ScriptIsBlank(userScript)
  /\ pc' = "lint"
  /\ UNCHANGED <<cfg, repo, tsconfig, pkg, inflight, ops, loc, runState>>

UserScriptCall ==
  /\ pc = "script"
  /\ \E userScript \in UserScripts : ~ScriptIsBlank(userScript)
  /\ Call("userScript", "script_wait")

\* a failing script that is reported and does not end the process
UserScriptFailureIgnored ==
  /\ pc = "script_wait"
  /\ \E ok \in BOOLEAN :
       /\ Return("userScript", <<Op("build", "userScript", << >>, ok)>>, "lint")
       /\ exitCode' = exitCode
  /\ UNCHANGED <<cfg, repo, tsconfig, pkg, loc, checkedFiles, hasErrors, totalErrors,
                 totalWarnings, checkResults, outcomes, summary>>

\* a failing script is rethrown by runUserScript and ends the process, lines 676-679
UserScriptReturn ==
  /\ pc = "script_wait"
  /\ \E ok \in BOOLEAN :
       /\ Return("userScript", <<Op("build", "userScript", << >>, ok)>>,
                 IF ok THEN "lint" ELSE "exited")
       /\ exitCode' = IF ok THEN exitCode ELSE <<1>>
  /\ UNCHANGED <<cfg, repo, tsconfig, pkg, loc, checkedFiles, hasErrors, totalErrors,
                 totalWarnings, checkResults, outcomes, summary>>

(***************************************************************************)
(* runStep, ESLint stage (index.ts) and performESLintCheck (eslint.ts)     *)
(***************************************************************************)
Entry(checker, status, errors, warnings, message) ==
  [checker |-> checker, status |-> status, errors |-> errors, warnings |-> warnings,
   message |-> message]

Returned(result) ==
  [kind |-> "returned", success |-> result.success, errorCount |-> result.errorCount,
   warningCount |-> result.warningCount, message |-> ""]

Threw(message) ==
  [kind |-> "threw", success |-> FALSE, errorCount |-> 0, warningCount |-> 0, message |-> message]

Disabled == [kind |-> "disabled", success |-> TRUE, errorCount |-> 0, warningCount |-> 0, message |-> ""]

\* else-branch of `if (enableESLintCheck)`
LintDisabled ==
  /\ pc = "lint"
  /\ ~enableESLintCheck
  /\ checkResults' = Append(checkResults, Entry("ESLint", "disabled", 0, 0, ""))
  /\ outcomes' = [outcomes EXCEPT !["ESLint"] = Disabled]
  /\ pc' = "ts"
  /\ UNCHANGED <<cfg, repo, tsconfig, pkg, inflight, ops, loc, checkedFiles, hasErrors,
                 totalErrors, totalWarnings, summary, exitCode>>

\* performESLintCheck starts with git rev-parse --git-dir
RevParseCall ==
  /\ enableESLintCheck
  /\ pc = "lint"
  /\ Call("rev-parse", "L_revparse_wait")

\* after rev-parse: not a repository throws; full mode takes the patterns;
\* incremental mode goes to the resolver the configuration selects
RevParseReturn ==
  /\ pc = "L_revparse_wait"
  /\ \E ok \in BOOLEAN :
       /\ Return("rev-parse", <<Op("ESLint", "rev-parse", << >>, ok)>>,
                 IF ~ok THEN "L_throw"
                 ELSE IF fullCheckMode THEN "L_exec"
                 ELSE IF envBranchDeployMode THEN "E_log"
                 ELSE "D_fetch")
       /\ loc' = IF ~ok THEN [loc EXCEPT !.error = "not a git repository"]
                 ELSE IF fullCheckMode
                 THEN [loc EXCEPT !.filesToCheck = getFullCheckFiles(checkDirectories)]
                 ELSE loc
  /\ UNCHANGED <<cfg, repo, tsconfig, pkg, runState>>

\* getEnvBranchChangedFiles -------------------------------------------------
deployBranch == Or(cfg.ciCommitRefName, "develop")
originMasterBranch == OriginRef(Or(targetBranch, "master"))

EnvLogCall ==
  /\ pc = "E_log"
  /\ Call("log", "E_log_wait")

\* git log --merges --first-parent <deployBranch> -n 1
EnvLogReturn ==
  /\ pc = "E_log_wait"
  /\ \E fault \in BOOLEAN :
       LET tip == Resolve(repo, LocalRef(deployBranch))
           ok == ~fault /\ tip # NoCommit
           latest == IF ok THEN FirstParentMerge(repo, tip) ELSE NoCommit
       IN /\ Return("log",
                    <<Op("ESLint", "log", <<deployBranch>>, ok)>> \o
                      (IF ok /\ latest = NoCommit
                       THEN <<Diag("ESLint", "warning", "no merge commit")>>
                       ELSE IF ~ok THEN <<Diag("ESLint", "error", "branch-deploy failed")>>
                       ELSE << >>),
                    IF latest = NoCommit THEN "D_fetch" ELSE "E_show")
          /\ loc' = IF latest = NoCommit THEN [loc EXCEPT !.fellBack = TRUE]
                    ELSE [loc EXCEPT !.mergeCommit = latest]
  /\ UNCHANGED <<cfg, repo, tsconfig, pkg, runState>>

EnvShowCall ==
  /\ pc = "E_show"
  /\ Call("show", "E_show_wait")

\* the parent count the resolver accepts
EnoughParents(parents) == Len(parents) >= 2

\* git show <mergeCommit> --pretty=format:%P
EnvShowReturn ==
  /\ pc = "E_show_wait"
  /\ \E fault \in BOOLEAN :
       LET ok == ~fault
           parents == IF ok THEN SplitParents(ShowParentsOutput(repo, loc.mergeCommit)) ELSE << >>
           go == ok /\ EnoughParents(parents)
       IN /\ Return("show",
                    <<Op("ESLint", "show", <<loc.mergeCommit>>, ok)>> \o
                      (IF ok /\ ~go
                       THEN <<Diag("ESLint", "warning", "merge commit has fewer than two parents")>>
                       ELSE IF ~ok THEN <<Diag("ESLint", "error", "branch-deploy failed")>>
                       ELSE << >>),
                    IF go THEN "E_catfile" ELSE "D_fetch")
          /\ loc' = IF go THEN [loc EXCEPT !.devEnd = parents[2]]
                    ELSE [loc EXCEPT !.fellBack = TRUE]
  /\ UNCHANGED <<cfg, repo, tsconfig, pkg, runState>>

EnvCatFileCall ==
  /\ pc = "E_catfile"
  /\ Call("cat-file", "E_catfile_wait")

\* a cat-file check whose failure is reported but does not leave the branch-deploy path
EnvCatFileIgnored ==
  /\ pc = "E_catfile_wait"
  /\ \E fault \in BOOLEAN :
       LET ok == ~fault /\ Resolve(repo, CommitRev(loc.devEnd)) # NoCommit
       IN /\ Return("cat-file",
                    <<Op("ESLint", "cat-file", <<loc.devEnd>>, ok)>> \o
                      (IF ok THEN << >> ELSE <<Diag("ESLint", "error", "devEnd does not exist")>>),
                    "E_mergebase")
          /\ loc' = loc
  /\ UNCHANGED <<cfg, repo, tsconfig, pkg, runState>>

\* git cat-file -e <devEnd>
EnvCatFileReturn ==
  /\ pc = "E_catfile_wait"
  /\ \E fault \in BOOLEAN :
       LET ok == ~fault /\ Resolve(repo, CommitRev(loc.devEnd)) # NoCommit
       IN /\ Return("cat-file",
                    <<Op("ESLint", "cat-file", <<loc.devEnd>>, ok)>> \o
                      (IF ok THEN << >> ELSE <<Diag("ESLint", "error", "devEnd does not exist")>>),
                    IF ok THEN "E_mergebase" ELSE "D_fetch")
          /\ loc' = IF ok THEN loc ELSE [loc EXCEPT !.fellBack = TRUE]
  /\ UNCHANGED <<cfg, repo, tsconfig, pkg, runState>>

EnvMergeBaseCall ==
  /\ pc = "E_mergebase"
  /\ Call("merge-base", "E_mergebase_wait")

\* git merge-base origin/<master> <devEnd>
EnvMergeBaseReturn ==
  /\ pc = "E_mergebase_wait"
  /\ \E fault \in BOOLEAN :
       LET master == Resolve(repo, originMasterBranch)
           bases == IF fault \/ master = NoCommit THEN {}
                    ELSE MergeBases(repo, master, loc.devEnd)
       IN \E initialBase \in bases \cup {NoCommit} :
            /\ (bases # {}) => (initialBase # NoCommit)
            /\ Return("merge-base",
                      <<Op("ESLint", "merge-base", <<loc.devEnd>>, initialBase # NoCommit)>> \o
                        (IF initialBase # NoCommit THEN << >>
                         ELSE <<Diag("ESLint", "error", "branch-deploy failed")>>),
                      IF initialBase # NoCommit THEN "E_diff" ELSE "D_fetch")
            /\ loc' = IF initialBase # NoCommit THEN [loc EXCEPT !.baseCommit = initialBase]
                      ELSE [loc EXCEPT !.fellBack = TRUE]
  /\ UNCHANGED <<cfg, repo, tsconfig, pkg, runState>>

EnvDiffCall ==
  /\ pc = "E_diff"
  /\ Call("diff", "E_diff_wait")

\* git diff --name-only <baseCommit> <devEnd>
EnvDiffReturn ==
  /\ pc = "E_diff_wait"
  /\ \E fault \in BOOLEAN :
       LET ok == ~fault
           files == SplitLines(NameOnlyOutput(DiffPaths(repo, loc.baseCommit, loc.devEnd)))
       IN /\ Return("diff",
                    <<Op("ESLint", "diff", <<CommitRev(loc.baseCommit), CommitRev(loc.devEnd)>>, ok)>> \o
                      (IF ok THEN << >> ELSE <<Diag("ESLint", "error", "branch-deploy failed")>>),
                    IF ok THEN "L_filter" ELSE "D_fetch")
          /\ loc' = IF ok THEN [loc EXCEPT !.changedFiles = files]
                    ELSE [loc EXCEPT !.fellBack = TRUE]
  /\ UNCHANGED <<cfg, repo, tsconfig, pkg, runState>>

\* getChangedFiles (eslint.ts) ----------------------------------------------
\* the two revisions the ESLint resolver diffs
ESLintDiffRevs(source, target) == <<OriginRef(target), OriginRef(source)>>

\* git diff --name-only x y of the working repository; fails on an unknown revision
GitDiff(r, revs, fault) ==
  LET x == Resolve(r, revs[1])
      y == Resolve(r, revs[2])
      ok == ~fault /\ x # NoCommit /\ y # NoCommit
  IN [ok |-> ok, files |-> IF ok THEN SplitLines(NameOnlyOutput(DiffPaths(r, x, y))) ELSE << >>]

DirectFetchCall ==
  /\ pc = "D_fetch"
  /\ Call("fetch", "D_fetch_wait")

\* a fetch whose failure is not caught by the resolver and reaches the checker boundary
DirectFetchRaises ==
  /\ pc = "D_fetch_wait"
  /\ \E ok \in BOOLEAN :
       /\ Return("fetch", <<Op("ESLint", "fetch", << >>, ok)>>, IF ok THEN "D_diff" ELSE "L_throw")
       /\ loc' = IF ok THEN loc ELSE [loc EXCEPT !.error = "getChangedFiles failed"]
  /\ UNCHANGED <<cfg, repo, tsconfig, pkg, runState>>

\* git fetch; a failure is caught and the resolver returns []
DirectFetchReturn ==
  /\ pc = "D_fetch_wait"
  /\ \E ok \in BOOLEAN :
       /\ Return("fetch",
                 <<Op("ESLint", "fetch", << >>, ok)>> \o
                   (IF ok THEN << >> ELSE <<Diag("ESLint", "error", "getChangedFiles failed")>>),
                 IF ok THEN "D_diff" ELSE "L_filter")
       /\ loc' = IF ok THEN loc ELSE [loc EXCEPT !.changedFiles = << >>]
  /\ UNCHANGED <<cfg, repo, tsconfig, pkg, runState>>

DirectDiffCall ==
  /\ pc = "D_diff"
  /\ Call("diff", "D_diff_wait")

DirectDiffReturn ==
  /\ pc = "D_diff_wait"
  /\ \E fault \in BOOLEAN :
       LET revs == ESLintDiffRevs(sourceBranch, targetBranch)
           diff == GitDiff(repo, revs, fault)
       IN /\ Return("diff",
                    <<Op("ESLint", "diff", revs, diff.ok)>> \o
                      (IF diff.ok THEN << >> ELSE <<Diag("ESLint", "error", "getChangedFiles failed")>>),
                    "L_filter")
          /\ loc' = [loc EXCEPT !.changedFiles = diff.files]
  /\ UNCHANGED <<cfg, repo, tsconfig, pkg, runState>>

\* a filter step without the early return: ESLint is run on whatever is left
LintFilterAlwaysRuns ==
  /\ pc = "L_filter"
  /\ LET files == filterFrontendFiles(loc.changedFiles, repo, checkDirectories)
     IN /\ loc' = [loc EXCEPT !.filesToCheck = files]
        /\ pc' = "L_exec"
  /\ UNCHANGED <<cfg, repo, tsconfig, pkg, inflight, ops, runState>>

\* filterFrontendFiles, then the early return when nothing is left
LintFilter ==
  /\ pc = "L_filter"
  /\ LET files == filterFrontendFiles(loc.changedFiles, repo, checkDirectories)
     IN /\ loc' = [loc EXCEPT !.filesToCheck = files,
                              !.result = IF files = << >> THEN <<ESLintNothing>> ELSE << >>]
        /\ pc' = IF files = << >> THEN "L_return" ELSE "L_exec"
  /\ UNCHANGED <<cfg, repo, tsconfig, pkg, inflight, ops, runState>>

\* runESLintCheck: npx eslint with the files, or `npx eslint .` in full mode
ESLintCall ==
  /\ pc = "L_exec"
  /\ Call("eslint", "L_exec_wait")

ESLintReturn ==
  /\ pc = "L_exec_wait"
  /\ \E run \in ESLintRuns :
       /\ Return("eslint",
                 <<Op("ESLint", "eslint", IF fullCheckMode THEN << >> ELSE loc.filesToCheck, run.exit = 0)>>,
                 "L_return")
       /\ loc' = [loc EXCEPT !.result = <<runESLintCheck(loc.filesToCheck, run)>>]
  /\ UNCHANGED <<cfg, repo, tsconfig, pkg, runState>>

\* a run that fails only on counted errors
FailedWithErrors(result) == ~result.success /\ result.errorCount > 0

\* what runStep does with a checker that returned `result`: lines 743-766, 791-824
Failed(result) == ~result.success

AddErrors(total, result) == IF Failed(result) THEN total + result.errorCount ELSE total

\* warnings counted only for a failing result
AddWarningsOnFailure(total, result) ==
  IF Failed(result) THEN total + result.warningCount ELSE total

AddWarnings(total, result) == total + result.warningCount

ResultEntry(checker, result) ==
  IF Failed(result) THEN Entry(checker, "fail", result.errorCount, result.warningCount, "")
  ELSE Entry(checker, "pass", 0, result.warningCount, "")

\* try-branch of the ESLint stage: keep the file list, count, summarise
LintReport ==
  /\ pc = "L_return"
  /\ LET result == loc.result[1]
     IN /\ checkedFiles' = result.checkedFiles
        /\ hasErrors' = (hasErrors \/ Failed(result))
        /\ totalErrors' = AddErrors(totalErrors, result)
        /\ totalWarnings' = AddWarnings(totalWarnings, result)
        /\ checkResults' = Append(checkResults, ResultEntry("ESLint", result))
        /\ outcomes' = [outcomes EXCEPT !["ESLint"] = Returned(result)]
  /\ loc' = NoLocals
  /\ ops' = << >>
  /\ pc' = "ts"
  /\ UNCHANGED <<cfg, repo, tsconfig, pkg, inflight, summary, exitCode>>

\* an ESLint stage without its try/catch: the exception rejects runStep, exit(-1)
LintRethrow ==
  /\ pc = "L_throw"
  /\ hasErrors' = TRUE
  /\ checkResults' = checkResults
  /\ outcomes' = [outcomes EXCEPT !["ESLint"] = Threw(loc.error)]
  /\ loc' = NoLocals
  /\ ops' = << >>
  /\ Exit(255)
  /\ UNCHANGED <<cfg, repo, tsconfig, pkg, inflight, checkedFiles, totalErrors, totalWarnings,
                 summary>>

\* catch-branch of the ESLint stage
LintCatch ==
  /\ pc = "L_throw"
  /\ hasErrors' = TRUE
  /\ checkResults' = Append(checkResults, Entry("ESLint", "error", 0, 0, loc.error))
  /\ outcomes' = [outcomes EXCEPT !["ESLint"] = Threw(loc.error)]
  /\ loc' = NoLocals
  /\ ops' = << >>
  /\ pc' = "ts"
  /\ UNCHANGED <<cfg, repo, tsconfig, pkg, inflight, checkedFiles, totalErrors, totalWarnings,
                 summary, exitCode>>

(***************************************************************************)
(* runStep, TypeScript stage and runTypeScriptCheck (typescript.ts)        *)
(***************************************************************************)
TypeScriptDisabled ==
  /\ pc = "ts"
  /\ ~enableTypeScriptCheck
  /\ checkResults' = Append(checkResults, Entry("TypeScript", "disabled", 0, 0, ""))
  /\ outcomes' = [outcomes EXCEPT !["TypeScript"] = Disabled]
  /\ pc' = "cov"
  /\ UNCHANGED <<cfg, repo, tsconfig, pkg, inflight, ops, loc, checkedFiles, hasErrors,
                 totalErrors, totalWarnings, summary, exitCode>>

\* runTypeScriptCheck up to its first await: no tsconfig.json, full check,
\* the files handed over by the ESLint stage, or its own getChangedFiles
TypeScriptStart ==
  /\ pc = "ts"
  /\ enableTypeScriptCheck
  /\ \E found \in ExistsSync(tsconfig) :
       /\ tsconfig' = found
       /\ pc' = IF found = "absent" THEN "T_return"
                ELSE IF fullTypeScriptCheckMode THEN "T_exec"
                ELSE IF Len(checkedFiles) = 0 THEN "T_fetch"
                ELSE "T_filter"
       /\ loc' = IF found = "absent" THEN [loc EXCEPT !.result = <<TypeScriptNothing>>]
                 ELSE IF fullTypeScriptCheckMode THEN loc
                 ELSE [loc EXCEPT !.changedFiles = checkedFiles]
  /\ UNCHANGED <<cfg, repo, pkg, inflight, ops, runState>>

\* the two revisions the TypeScript resolver diffs (typescript.ts getChangedFiles)
TypeScriptDiffRevs(source, target) ==
  IF source # "" THEN <<OriginRef(target), OriginRef(source)>>
  ELSE <<OriginRef(target), HeadRef>>

TypeScriptFetchCall ==
  /\ pc = "T_fetch"
  /\ Call("fetch", "T_fetch_wait")

TypeScriptFetchReturn ==
  /\ pc = "T_fetch_wait"
  /\ \E ok \in BOOLEAN :
       /\ Return("fetch",
                 <<Op("TypeScript", "fetch", << >>, ok)>> \o
                   (IF ok THEN << >> ELSE <<Diag("TypeScript", "error", "getChangedFiles failed")>>),
                 IF ok THEN "T_diff" ELSE "T_filter")
       /\ loc' = IF ok THEN loc ELSE [loc EXCEPT !.changedFiles = << >>]
  /\ UNCHANGED <<cfg, repo, tsconfig, pkg, runState>>

TypeScriptDiffCall ==
  /\ pc = "T_diff"
  /\ Call("diff", "T_diff_wait")

TypeScriptDiffReturn ==
  /\ pc = "T_diff_wait"
  /\ \E fault \in BOOLEAN :
       LET revs == TypeScriptDiffRevs(sourceBranch, targetBranch)
           diff == GitDiff(repo, revs, fault)
       IN /\ Return("diff",
                    <<Op("TypeScript", "diff", revs, diff.ok)>> \o
                      (IF diff.ok THEN << >>
                       ELSE <<Diag("TypeScript", "error", "getChangedFiles failed")>>),
                    "T_filter")
          /\ loc' = [loc EXCEPT !.changedFiles = diff.files]
  /\ UNCHANGED <<cfg, repo, tsconfig, pkg, runState>>

\* filterTypeScriptFiles, then the early return when nothing is left
TypeScriptFilter ==
  /\ pc = "T_filter"
  /\ LET actualFiles == filterTypeScriptFiles(loc.changedFiles, repo, checkDirectories)
     IN /\ loc' = [loc EXCEPT !.filesToCheck = actualFiles,
                              !.result = IF actualFiles = << >> THEN <<TypeScriptNothing>> ELSE << >>]
        /\ pc' = IF actualFiles = << >> THEN "T_return" ELSE "T_exec"
  /\ UNCHANGED <<cfg, repo, tsconfig, pkg, inflight, ops, runState>>

\* npx tsc --noEmit, with the files or for the whole project
TscCall ==
  /\ pc = "T_exec"
  /\ Call("tsc", "T_exec_wait")

TscReturn ==
  /\ pc = "T_exec_wait"
  /\ \E run \in TypeScriptRuns :
       /\ Return("tsc",
                 <<Op("TypeScript", "tsc", loc.filesToCheck, run.exit = 0)>>, "T_return")
       /\ loc' = [loc EXCEPT !.result =
                    <<runTypeScriptCheck(loc.filesToCheck, fullTypeScriptCheckMode, run)>>]
  /\ UNCHANGED <<cfg, repo, tsconfig, pkg, runState>>

\* try-branch of the TypeScript stage (runTypeScriptCheck catches everything itself)
TypeScriptReport ==
  /\ pc = "T_return"
  /\ LET result == loc.result[1]
     IN /\ hasErrors' = (hasErrors \/ Failed(result))
        /\ totalErrors' = AddErrors(totalErrors, result)
        /\ totalWarnings' = AddWarnings(totalWarnings, result)
        /\ checkResults' = Append(checkResults, ResultEntry("TypeScript", result))
        /\ outcomes' = [outcomes EXCEPT !["TypeScript"] = Returned(result)]
  /\ loc' = NoLocals
  /\ ops' = << >>
  /\ pc' = "cov"
  /\ UNCHANGED <<cfg, repo, tsconfig, pkg, inflight, checkedFiles, summary, exitCode>>

(***************************************************************************)
(* runStep, coverage stage and performTypeScriptCoverageCheck              *)
(***************************************************************************)
CoverageDisabled ==
  /\ pc = "cov"
  /\ ~enableTypeScriptCoverageReport
  /\ checkResults' = Append(checkResults, Entry("Coverage", "disabled", 0, 0, ""))
  /\ outcomes' = [outcomes EXCEPT !["Coverage"] = Disabled]
  /\ pc' = "summary"
  /\ UNCHANGED <<cfg, repo, tsconfig, pkg, inflight, ops, loc, checkedFiles, hasErrors,
                 totalErrors, totalWarnings, summary, exitCode>>

\* needInstall: package.json missing or typescript-coverage-report not in devDependencies
needInstall(manifest) == ~(manifest.exists /\ manifest.devDependency)

\* up to the first await: tsconfig.json must exist, then the dependency check
CoverageStart ==
  /\ pc = "cov"
  /\ enableTypeScriptCoverageReport
  /\ \E found \in ExistsSync(tsconfig), manifest \in Manifests :
       /\ tsconfig' = found
       /\ pkg' = IF found = "absent" THEN pkg ELSE <<manifest>>
       /\ pc' = IF found = "absent" THEN "C_throw"
                ELSE IF needInstall(manifest) THEN "C_install"
                ELSE "C_config"
       /\ loc' = IF found = "absent" THEN [loc EXCEPT !.error = "no tsconfig.json"] ELSE loc
       /\ ops' = IF found = "absent" THEN ops
                 ELSE Append(ops, Op("Coverage", "readManifest", << >>, manifest.exists))
  /\ UNCHANGED <<cfg, repo, inflight, runState>>

InstallCall ==
  /\ pc = "C_install"
  /\ Call("install", "C_install_wait")

\* installCoverageDependencies: the package manager adds the tool to package.json
InstallReturn ==
  /\ pc = "C_install_wait"
  /\ \E ok \in BOOLEAN :
       /\ Return("install", <<Op("Coverage", "install", << >>, ok)>>,
                 IF ok THEN "C_config" ELSE "C_throw")
       /\ pkg' = IF ok THEN <<[pkg[1] EXCEPT !.exists = TRUE, !.devDependency = TRUE]>> ELSE pkg
       /\ loc' = IF ok THEN loc ELSE [loc EXCEPT !.error = "coverage failed: install failed"]
  /\ UNCHANGED <<cfg, repo, tsconfig, runState>>

\* the manifest createCoverageConfig writes
\* a write that replaces the scripts of the manifest by the ts-coverage script alone
WithCoverageConfigOnly(manifest, threshold) ==
  [manifest EXCEPT
     !.scripts = {<<"ts-coverage", "typescript-coverage-report">>},
     !.typeCoverage = <<[atLeast |-> threshold, detail |-> TRUE, strict |-> TRUE, cache |-> TRUE,
                         ignoreFiles |-> "defaults"]>>]

WithCoverageConfig(manifest, threshold) ==
  [manifest EXCEPT
     !.scripts = {entry \in @ : entry[1] # "ts-coverage"}
                   \cup {<<"ts-coverage", "typescript-coverage-report">>},
     !.typeCoverage = <<[atLeast |-> threshold, detail |-> TRUE, strict |-> TRUE, cache |-> TRUE,
                         ignoreFiles |-> "defaults"]>>]

\* a createCoverageConfig whose failure is swallowed: the measurement runs anyway
CreateCoverageConfigUnchecked ==
  /\ pc = "C_config"
  /\ \E written \in BOOLEAN :
       LET ok == pkg[1].exists /\ written
       IN /\ pkg' = IF ok THEN <<WithCoverageConfig(pkg[1], typeScriptCoverageThreshold)>> ELSE pkg
          /\ ops' = Append(ops, Op("Coverage", "writeManifest", << >>, ok))
          /\ pc' = "C_measure"
          /\ loc' = loc
  /\ UNCHANGED <<cfg, repo, tsconfig, inflight, runState>>

\* createCoverageConfig: synchronous read and write of package.json
CreateCoverageConfig ==
  /\ pc = "C_config"
  /\ \E written \in BOOLEAN :
       LET ok == pkg[1].exists /\ written
       IN /\ pkg' = IF ok THEN <<WithCoverageConfig(pkg[1], typeScriptCoverageThreshold)>> ELSE pkg
          /\ ops' = Append(ops, Op("Coverage", "writeManifest", << >>, ok))
          /\ pc' = IF ok THEN "C_measure" ELSE "C_throw"
          /\ loc' = IF ok THEN loc ELSE [loc EXCEPT !.error = "coverage failed: config failed"]
  /\ UNCHANGED <<cfg, repo, tsconfig, inflight, runState>>

MeasureCall ==
  /\ pc = "C_measure"
  /\ Call("ts-coverage", "C_measure_wait")

\* a measurement whose every failure is taken for a coverage below the threshold
CoverageOutcomeNeverThrows(run) == IF run.exit = 0 THEN "pass" ELSE "fail"

\* exit 0 passes; exit 1 with output is a coverage below the threshold; the rest throws
CoverageOutcome(run) ==
  IF run.exit = 0 THEN "pass"
  ELSE IF run.exit = 1 /\ run.hasOutput THEN "fail"
  ELSE "throw"

MeasureReturn ==
  /\ pc = "C_measure_wait"
  /\ \E run \in CoverageRuns :
       /\ Return("ts-coverage",
                 <<Op("Coverage", "ts-coverage", << >>, run.exit = 0)>>,
                 IF CoverageOutcome(run) = "throw" THEN "C_throw" ELSE "C_return")
       /\ loc' = IF CoverageOutcome(run) = "throw"
                 THEN [loc EXCEPT !.error = "coverage failed: command failed"]
                 ELSE [loc EXCEPT !.result =
                         <<[success |-> CoverageOutcome(run) = "pass", errorCount |-> 0,
                            warningCount |-> 0]>>]
  /\ UNCHANGED <<cfg, repo, tsconfig, pkg, runState>>

\* try-branch of the coverage stage
CoverageReport ==
  /\ pc = "C_return"
  /\ LET result == loc.result[1]
     IN /\ hasErrors' = (hasErrors \/ Failed(result))
        /\ checkResults' = Append(checkResults,
             Entry("Coverage", IF Failed(result) THEN "fail" ELSE "pass", 0, 0, ""))
        /\ outcomes' = [outcomes EXCEPT !["Coverage"] = Returned(result)]
  /\ loc' = NoLocals
  /\ ops' = << >>
  /\ pc' = "summary"
  /\ UNCHANGED <<cfg, repo, tsconfig, pkg, inflight, checkedFiles, totalErrors, totalWarnings,
                 summary, exitCode>>

\* a catch-branch that fails the run without an entry in the summary
CoverageCatchSilent ==
  /\ pc = "C_throw"
  /\ hasErrors' = TRUE
  /\ checkResults' = checkResults
  /\ outcomes' = [outcomes EXCEPT !["Coverage"] = Threw(loc.error)]
  /\ loc' = NoLocals
  /\ ops' = << >>
  /\ pc' = "summary"
  /\ UNCHANGED <<cfg, repo, tsconfig, pkg, inflight, checkedFiles, totalErrors, totalWarnings,
                 summary, exitCode>>

\* catch-branch of the coverage stage
CoverageCatch ==
  /\ pc = "C_throw"
  /\ hasErrors' = TRUE
  /\ checkResults' = Append(checkResults, Entry("Coverage", "error", 0, 0, loc.error))
  /\ outcomes' = [outcomes EXCEPT !["Coverage"] = Threw(loc.error)]
  /\ loc' = NoLocals
  /\ ops' = << >>
  /\ pc' = "summary"
  /\ UNCHANGED <<cfg, repo, tsconfig, pkg, inflight, checkedFiles, totalErrors, totalWarnings,
                 summary, exitCode>>

(***************************************************************************)
(* runStep, summary and exit: lines 867-894                                *)
(***************************************************************************)
\* an exit status that does not look at the errors
ExitCodeZero(errors) == 0

\* process.exit(1) when hasErrors; otherwise runStep resolves and the process ends with 0
ExitCodeFor(errors) == IF errors THEN 1 ELSE 0

Summary ==
  /\ pc = "summary"
  /\ summary' = TRUE
  /\ Exit(ExitCodeFor(hasErrors))
  /\ UNCHANGED <<cfg, repo, tsconfig, pkg, inflight, ops, loc, checkedFiles, hasErrors,
                 totalErrors, totalWarnings, checkResults, outcomes>>

Next ==
  \/ Chdir \/ UserScriptSkip \/ UserScriptCall \/ UserScriptReturn
  \/ LintDisabled \/ RevParseCall \/ RevParseReturn
  \/ EnvLogCall \/ EnvLogReturn \/ EnvShowCall \/ EnvShowReturn
  \/ EnvCatFileCall \/ EnvCatFileReturn \/ EnvMergeBaseCall \/ EnvMergeBaseReturn
  \/ EnvDiffCall \/ EnvDiffReturn
  \/ DirectFetchCall \/ DirectFetchReturn \/ DirectDiffCall \/ DirectDiffReturn
  \/ LintFilter \/ ESLintCall \/ ESLintReturn \/ LintReport \/ LintCatch
  \/ TypeScriptDisabled \/ TypeScriptStart
  \/ TypeScriptFetchCall \/ TypeScriptFetchReturn \/ TypeScriptDiffCall \/ TypeScriptDiffReturn
  \/ TypeScriptFilter \/ TscCall \/ TscReturn \/ TypeScriptReport
  \/ CoverageDisabled \/ CoverageStart \/ InstallCall \/ InstallReturn
  \/ CreateCoverageConfig \/ MeasureCall \/ MeasureReturn \/ CoverageReport \/ CoverageCatch
  \/ Summary

Spec == Init /\ [][Next]_vars

(***************************************************************************)
(* performESLintCheck on its own: the exported entry point of eslint.ts,   *)
(* called with ESLint enabled and any list of check directories            *)
(***************************************************************************)
\* check directories a caller passes: the default, two directories, one with padding,
\* and a directory that holds no frontend file
DirectoryChoices ==
  { << >>,
    << <<"src">>, <<"packages", "/", "ui">> >>,
    << <<" ", "src", " ">> >>,
    << <<"docs">> >> }

LintConfigs ==
  [ enableESLintCheck : {"true"},
    enableTypeScriptCheck : {"false"},
    enableTypeScriptCoverageReport : {"false"},
    envBranchDeployMode : Flags,
    fullCheckMode : Flags,
    fullTypeScriptCheckMode : {"false"},
    sourceBranch : {"*", "feat"},
    targetBranch : {""},
    ciCommitRefName : {"", "deploy"},
    gitBranch : {""},
    checkDirectories : DirectoryChoices,
    typeScriptCoverageThreshold : {""} ]

LintInit ==
  /\ cfg \in LintConfigs
  /\ repo \in Repos \cup OctopusRepos
  /\ tsconfig = "unknown"
  /\ pkg = << >>
  /\ pc = "lint"
  /\ inflight = {}
  /\ ops = << >>
  /\ loc = NoLocals
  /\ checkedFiles = << >>
  /\ hasErrors = FALSE
  /\ totalErrors = 0
  /\ totalWarnings = 0
  /\ checkResults = << >>
  /\ outcomes = [c \in Range(Checkers) |-> NoOutcome]
  /\ summary = FALSE
  /\ exitCode = << >>

NextLint ==
  \/ RevParseCall \/ RevParseReturn
  \/ EnvLogCall \/ EnvLogReturn \/ EnvShowCall \/ EnvShowReturn
  \/ EnvCatFileCall \/ EnvCatFileReturn \/ EnvMergeBaseCall \/ EnvMergeBaseReturn
  \/ EnvDiffCall \/ EnvDiffReturn
  \/ DirectFetchCall \/ DirectFetchReturn \/ DirectDiffCall \/ DirectDiffReturn
  \/ LintFilter \/ ESLintCall \/ ESLintReturn \/ LintReport \/ LintCatch

SpecLint == LintInit /\ [][NextLint]_vars

(***************************************************************************)
(* The scope filters on their own: filterFrontendFiles and                 *)
(* filterTypeScriptFiles applied to a path list, for several check         *)
(* directories and several working trees                                   *)
(***************************************************************************)
SrcLibA == <<"src", "/", "lib", "/", "a", ".", "ts">>

\* paths with every extension, under and outside the check directories, test and spec
\* files, paths under excluded directories, and a path with a Windows separator
ScopePaths ==
  { SrcA, SrcBTest, SrcC, DocsReadme, SrcLibA,
    <<"src", "/", "c", ".", "spec", ".", "ts">>,
    <<"src", "/", "node_modules", "/", "a", ".", "ts">>,
    <<"src", "/", "test", "/", "a", ".", "ts">>,
    <<"src", "/", "dist", "/", "a", ".", "ts", "x">>,
    <<"src", "/", "a", ".", "vue">>,
    <<"src", "\\", "a", ".", "ts">> }

\* a working tree holding the paths `present`
Disk(present) ==
  [ objects |-> {CommitA},
    parents |-> [c \in {CommitA} |-> << >>],
    tree |-> [c \in {CommitA} |-> [p \in ScopePaths |-> IF p \in present THEN 1 ELSE 0]],
    refs |-> [r \in {HeadRef} |-> CommitA] ]

Disks == {Disk(ScopePaths), Disk(ScopePaths \ {SrcA, SrcLibA, SrcBTest})}

FilterConfigs ==
  [ enableESLintCheck : {"true"},
    enableTypeScriptCheck : {"true"},
    enableTypeScriptCoverageReport : {"false"},
    envBranchDeployMode : {"false"},
    fullCheckMode : {"false"},
    fullTypeScriptCheckMode : {"false"},
    sourceBranch : {"*"},
    targetBranch : {""},
    ciCommitRefName : {""},
    gitBranch : {""},
    checkDirectories : DirectoryChoices,
    typeScriptCoverageThreshold : {""} ]

FilterInit ==
  /\ cfg \in FilterConfigs
  /\ repo \in Disks
  /\ tsconfig = "present"
  /\ pkg = << >>
  /\ pc \in {"L_filter", "T_filter"}
  /\ inflight = {}
  /\ ops = << >>
  /\ \E files \in SeqsUpTo(ScopePaths, MaxFiles) : loc = [NoLocals EXCEPT !.changedFiles = files]
  /\ checkedFiles = << >>
  /\ hasErrors = FALSE
  /\ totalErrors = 0
  /\ totalWarnings = 0
  /\ checkResults = << >>
  /\ outcomes = [c \in Range(Checkers) |-> NoOutcome]
  /\ summary = FALSE
  /\ exitCode = << >>

NextFilter == LintFilter \/ TypeScriptFilter

SpecFilter == FilterInit /\ [][NextFilter]_vars

(***************************************************************************)
(* The publish script: autoPublish                                         *)
(***************************************************************************)
\* version strings of package.json, as tokens
Versions ==
  { <<"1", ".", "0", ".", "10">>,
    <<"2", ".", "3", ".", "9">>,
    <<"0", ".", "1", ".", "0">>,
    <<"1", ".", "0", ".", "10", "-beta", ".", "1">> }

\* version.split('.')
RECURSIVE SplitOnDot(_)
SplitOnDot(text) ==
  IF \A i \in DOMAIN text : text[i] # "." THEN <<text>>
  ELSE LET at == CHOOSE i \in DOMAIN text : text[i] = "." /\ \A j \in 1..(i - 1) : text[j] # "."
       IN <<SubSeq(text, 1, at - 1)>> \o SplitOnDot(SubSeq(text, at + 1, Len(text)))

\* parseInt of a part: the number its leading digits spell
ParseIntPart(part) == CHOOSE n \in 0..99 : ToString(n) = part[1]

\* a version bump that increments the minor component
incrementMinor(version) ==
  LET parts == SplitOnDot(version)
  IN parts[1] \o <<".">> \o <<ToString(ParseIntPart(parts[2]) + 1)>> \o <<".">> \o <<"0">>

\* incrementVersion: `${parts[0]}.${parts[1]}.${parseInt(parts[2]) + 1}`
incrementVersion(version) ==
  LET parts == SplitOnDot(version)
      patch == ParseIntPart(parts[3]) + 1
  IN parts[1] \o <<".">> \o parts[2] \o <<".">> \o <<ToString(patch)>>

Prompt == "Please input step version to publish like vx.y.z:"
PublishSuccess == <<"publish ", "success">>
PublishSuccessWithStepID == <<"publish ", "success", " with stepID">>
StepPublishSuccess == <<"Step Wotu_FE_Code_Detection ", "publish ", "success">>
PublishFailed == <<"publish ", "failed">>

\* what one data event of the child can carry; a message can come in two events
Chunks ==
  { <<"uploading">>, <<Prompt>>, PublishSuccessWithStepID, PublishSuccess, PublishFailed,
    <<"publish ">>, <<"success", " with stepID">> }

PublishLocals ==
  [ currentVersion |-> << >>, newVersion |-> << >>, publishSuccess |-> FALSE,
    outputBuffer |-> << >>, events |-> 0 ]

PublishInit ==
  /\ cfg \in FilterConfigs /\ cfg.checkDirectories = << >>
  /\ repo \in Disks /\ repo = Disk(ScopePaths)
  /\ tsconfig = "unknown"
  /\ pkg \in {<<[version |-> v, name |-> "wotu-fe-code-detection"]>> : v \in Versions}
  /\ pc = "P_read"
  /\ inflight = {}
  /\ ops = << >>
  /\ loc = PublishLocals
  /\ checkedFiles = << >>
  /\ hasErrors = FALSE
  /\ totalErrors = 0
  /\ totalWarnings = 0
  /\ checkResults = << >>
  /\ outcomes = [c \in Range(Checkers) |-> NoOutcome]
  /\ summary = FALSE
  /\ exitCode = << >>

PublishFrame ==
  UNCHANGED <<cfg, repo, tsconfig, checkedFiles, hasErrors, totalErrors, totalWarnings,
              checkResults, outcomes, summary>>

\* read package.json and compute the new version; a failure goes to the catch, exit(1)
PublishRead ==
  /\ pc = "P_read"
  /\ \E ok \in BOOLEAN :
       IF ok
       THEN /\ loc' = [loc EXCEPT !.currentVersion = pkg[1].version,
                                  !.newVersion = incrementVersion(pkg[1].version)]
            /\ pc' = "P_spawn"
            /\ exitCode' = exitCode
       ELSE /\ loc' = loc
            /\ Exit(1)
  /\ UNCHANGED <<pkg, inflight, ops>>
  /\ PublishFrame

\* spawn('flow-cli', ['step', 'publish']) and register the handlers
PublishSpawn ==
  /\ pc = "P_spawn"
  /\ inflight' = {"flow-cli"}
  /\ pc' = "P_running"
  /\ UNCHANGED <<pkg, ops, loc, exitCode>>
  /\ PublishFrame

\* child.stdout.on('data'): answer the prompt, look for a success marker in the chunk
StdoutData ==
  /\ pc = "P_running"
  /\ loc.events < MaxChunks
  /\ \E output \in Chunks :
       /\ loc' = [loc EXCEPT
                    !.outputBuffer = @ \o output,
                    !.events = @ + 1,
                    !.publishSuccess = @ \/ Includes(output, PublishSuccessWithStepID)
                                         \/ Includes(output, PublishSuccess)
                                         \/ Includes(output, StepPublishSuccess)]
       /\ ops' = IF Includes(output, <<Prompt>>)
                 THEN Append(ops, Op("publish", "stdin", <<<<"v">> \o loc.newVersion>>, TRUE))
                 ELSE ops
  /\ UNCHANGED <<pkg, pc, inflight, exitCode>>
  /\ PublishFrame

\* child.stderr.on('data')
StderrData ==
  /\ pc = "P_running"
  /\ loc.events < MaxChunks
  /\ \E errorOutput \in Chunks :
       loc' = [loc EXCEPT !.outputBuffer = @ \o errorOutput, !.events = @ + 1]
  /\ UNCHANGED <<pkg, pc, inflight, ops, exitCode>>
  /\ PublishFrame

\* child.on('error'): flow-cli could not be run
ChildError ==
  /\ pc = "P_running"
  /\ loc.events = 0
  /\ inflight' = {}
  /\ ops' = Append(ops, Op("publish", "error", << >>, FALSE))
  /\ Exit(1)
  /\ UNCHANGED <<pkg, loc>>
  /\ PublishFrame

\* codes of the closed child; 255 stands for a child killed by a signal (code null)
CloseCodes == {0, 1, 255}

\* the verdict of the close handler
PublishVerdict(code, publishSuccess, outputBuffer) ==
  IF code = 0 /\ publishSuccess THEN "update"
  ELSE IF code = 0 /\ ~publishSuccess
  THEN IF \/ Includes(outputBuffer, StepPublishSuccess)
          \/ Includes(outputBuffer, PublishSuccessWithStepID)
          \/ Includes(outputBuffer, PublishFailed)
       THEN (IF Includes(outputBuffer, PublishFailed) THEN "exit" ELSE "update")
       ELSE "exit"
  ELSE "exit"

\* child.on('close')
ChildClose ==
  /\ pc = "P_running"
  /\ \E code \in CloseCodes :
       /\ inflight' = {}
       /\ ops' = Append(ops, Op("publish", "close", <<code>>, code = 0))
       /\ IF PublishVerdict(code, loc.publishSuccess, loc.outputBuffer) = "update"
          THEN pc' = "P_update" /\ exitCode' = exitCode
          ELSE Exit(1)
  /\ UNCHANGED <<pkg, loc>>
  /\ PublishFrame

\* updatePackageVersion(newVersion), then the process ends; a failing read or write is
\* an uncaught exception of the handler, which ends the process with status 1
UpdatePackageVersion ==
  /\ pc = "P_update"
  /\ \E ok \in BOOLEAN :
       /\ pkg' = IF ok THEN <<[pkg[1] EXCEPT !.version = loc.newVersion]>> ELSE pkg
       /\ ops' = Append(ops, Op("publish", "writeVersion", <<loc.newVersion>>, ok))
       /\ Exit(IF ok THEN 0 ELSE 1)
  /\ UNCHANGED <<inflight, loc>>
  /\ PublishFrame

NextPublish ==
  \/ PublishRead \/ PublishSpawn \/ StdoutData \/ StderrData
  \/ ChildError \/ ChildClose \/ UpdatePackageVersion

SpecPublish == PublishInit /\ [][NextPublish]_vars

(***************************************************************************)
(* Properties of runStep                                                   *)
(***************************************************************************)
EnabledChecker(c) ==
  CASE c = "ESLint" -> enableESLintCheck
    [] c = "TypeScript" -> enableTypeScriptCheck
    [] OTHER -> enableTypeScriptCoverageReport

\* the checker was invoked and ended with a failing result or with an exception
FailingOutcome(c) ==
  \/ outcomes[c].kind = "threw"
  \/ outcomes[c].kind = "returned" /\ ~outcomes[c].success

LintStage ==
  {"lint", "L_revparse_wait", "E_log", "E_log_wait", "E_show", "E_show_wait", "E_catfile",
   "E_catfile_wait", "E_mergebase", "E_mergebase_wait", "E_diff", "E_diff_wait", "D_fetch",
   "D_fetch_wait", "D_diff", "D_diff_wait", "L_filter", "L_exec", "L_exec_wait", "L_return",
   "L_throw"}

TypeScriptStage ==
  {"ts", "T_fetch", "T_fetch_wait", "T_diff", "T_diff_wait", "T_filter", "T_exec", "T_exec_wait",
   "T_return"}

CoverageStage ==
  {"cov", "C_install", "C_install_wait", "C_config", "C_measure", "C_measure_wait", "C_return",
   "C_throw"}

\* C1: when the summary is printed the run has failed (hasErrors) exactly when some
\* enabled checker returned success = false or threw; a disabled checker is recorded
\* as disabled and never makes the run fail.
C1_OverallSuccess ==
  /\ \A c \in Range(Checkers) :
       (outcomes[c].kind = "disabled") => (~EnabledChecker(c) /\ ~FailingOutcome(c))
  /\ \A c \in Range(Checkers) : FailingOutcome(c) => (EnabledChecker(c) /\ hasErrors)
  /\ summary =>
       /\ hasErrors <=> \E c \in Range(Checkers) : EnabledChecker(c) /\ FailingOutcome(c)
       /\ \A c \in Range(Checkers) : ~EnabledChecker(c) => outcomes[c].kind = "disabled"

\* a run that fails because of the coverage check alone, the other two being disabled
C1_Witness ==
  /\ summary /\ hasErrors
  /\ outcomes["ESLint"].kind = "disabled" /\ outcomes["TypeScript"].kind = "disabled"
  /\ outcomes["Coverage"].kind = "returned" /\ ~outcomes["Coverage"].success

\* C2: the process exit code is 0 exactly when the run reached its summary without
\* a failing checker, and non-zero in every other case.
C2_ExitCode ==
  (pc = "exited") =>
    /\ exitCode # << >>
    /\ (exitCode = <<0>>) <=> (summary /\ ~hasErrors)
    /\ (summary /\ hasErrors) => exitCode = <<1>>

\* a run whose TypeScript check failed ends with status 1 after the summary
C2_Witness ==
  /\ pc = "exited" /\ summary /\ exitCode = <<1>>
  /\ outcomes["TypeScript"].kind = "returned" /\ ~outcomes["TypeScript"].success

\* C3: an exception of an enabled checker is caught at the checker boundary: it is
\* recorded as a failing result that carries the exception's message, the later
\* checkers are still attempted, and the summary comes only after all of them.
C3_ExceptionIsCaught ==
  /\ \A c \in Range(Checkers) :
       (outcomes[c].kind = "threw") =>
         /\ hasErrors
         /\ outcomes[c].message # ""
         /\ \E i \in DOMAIN checkResults :
              checkResults[i] = Entry(c, "error", 0, 0, outcomes[c].message)
         /\ (pc = "exited") => summary
  /\ (outcomes["ESLint"].kind = "threw") => outcomes["ESLint"].message = "not a git repository"
  /\ (outcomes["Coverage"].kind = "threw") =>
       outcomes["Coverage"].message \in
         {"no tsconfig.json", "coverage failed: install failed",
          "coverage failed: config failed", "coverage failed: command failed"}
  /\ summary =>
       \A c \in Range(Checkers) :
         /\ outcomes[c].kind # "none"
         /\ EnabledChecker(c) => outcomes[c].kind \in {"returned", "threw"}

\* ESLint threw, and TypeScript and coverage were still run to their results
C3_Witness ==
  /\ summary
  /\ outcomes["ESLint"].kind = "threw"
  /\ outcomes["TypeScript"].kind = "returned"
  /\ outcomes["Coverage"].kind = "returned"

\* C4: the checkers run strictly one after the other, ESLint, TypeScript, coverage:
\* at most one external operation is in flight, it belongs to the stage that is
\* running, a stage starts only when the stage before it has its outcome, and the
\* coverage check touches package.json only after ESLint and TypeScript are done.
C4_Sequential ==
  /\ Cardinality(inflight) <= 1
  /\ (inflight \cap {"rev-parse", "log", "show", "cat-file", "merge-base", "eslint"} # {})
       => pc \in LintStage
  /\ ("tsc" \in inflight) => pc \in TypeScriptStage
  /\ (inflight \cap {"install", "ts-coverage"} # {}) => pc \in CoverageStage
  /\ (pc \in LintStage) => \A c \in Range(Checkers) : outcomes[c].kind = "none"
  /\ (pc \in TypeScriptStage) =>
       /\ outcomes["ESLint"].kind # "none"
       /\ outcomes["TypeScript"].kind = "none" /\ outcomes["Coverage"].kind = "none"
  /\ (pc \in CoverageStage) =>
       /\ outcomes["ESLint"].kind # "none" /\ outcomes["TypeScript"].kind # "none"
       /\ outcomes["Coverage"].kind = "none"
  /\ (pc = "C_config") => inflight = {}
  /\ \A i \in DOMAIN ops :
       (ops[i].op \in {"readManifest", "install", "writeManifest"}) =>
         /\ pc \in CoverageStage
         /\ outcomes["ESLint"].kind # "none" /\ outcomes["TypeScript"].kind # "none"

\* the coverage command runs on a manifest written after both earlier checkers returned
C4_Witness ==
  /\ inflight = {"ts-coverage"}
  /\ \E i \in DOMAIN ops : ops[i].op = "writeManifest" /\ ops[i].ok
  /\ outcomes["ESLint"].kind = "returned" /\ outcomes["TypeScript"].kind = "returned"

(***************************************************************************)
(* Properties of the change-set resolution                                 *)
(***************************************************************************)
\* the paths whose content differs between two commits, in git's output order
DiffersBetween(x, y) == SelectSeq(PathOrder, LAMBDA p : repo.tree[x][p] # repo.tree[y][p])

\* no git command of the running stage failed and no diagnostic was issued
NoFailure == \A i \in DOMAIN ops : ops[i].ok /\ ops[i].op \notin {"warning", "error"}

\* C5: with the feature branch cut at A from the mainline, its tip B merged into the
\* deployment branch by M, and no git failure, branch-deploy resolution returns exactly
\* the paths that differ between A and B, however far the mainline advanced after A.
C5_BranchDeployDiff ==
  (pc = "L_filter" /\ envBranchDeployMode /\ CommitM \in repo.objects /\ NoFailure) =>
    /\ loc.changedFiles = DiffersBetween(CommitA, CommitB)
    /\ loc.baseCommit = CommitA /\ loc.devEnd = CommitB /\ loc.mergeCommit = CommitM

\* the mainline moved on after A and the resolver still returned the feature's two files
C5_Witness ==
  /\ pc = "L_filter" /\ envBranchDeployMode /\ NoFailure
  /\ repo.refs[OriginRef("master")] # CommitA
  /\ loc.changedFiles = <<SrcA, SrcOld>>

\* one of the branch-deploy preconditions failed: a git command of the procedure
\* failed, or it found no merge commit or a merge commit with fewer than two parents
PreconditionFailed ==
  \E i \in DOMAIN ops :
    /\ ops[i].by = "ESLint"
    /\ \/ ops[i].op \in {"log", "show", "cat-file", "merge-base"} /\ ~ops[i].ok
       \/ ops[i].op = "warning"
       \/ ops[i].op = "diff" /\ ops[i].args[1].kind = "commit" /\ ~ops[i].ok

\* what direct-mode resolution of origin/<target> against origin/<source> returned
DirectRevs == <<OriginRef(targetBranch), OriginRef(sourceBranch)>>

DirectResult ==
  IF \E i, j \in DOMAIN ops :
       /\ i < j
       /\ ops[i].op = "fetch" /\ ops[i].ok
       /\ ops[j].op = "diff" /\ ops[j].ok /\ ops[j].args = DirectRevs
  THEN DiffersBetween(Resolve(repo, DirectRevs[1]), Resolve(repo, DirectRevs[2]))
  ELSE << >>

C7_EmptySourceDiffsHead ==
  /\ \A i \in DOMAIN ops :
       (sourceBranch = "" /\ ops[i].op = "diff" /\ ops[i].args[1].kind = "ref") =>
         ops[i].args = <<OriginRef(targetBranch), HeadRef>>
  /\ (/\ pc = "L_filter" /\ envBranchDeployMode
      /\ \E i \in DOMAIN ops : ops[i] = Diag("ESLint", "warning", "no merge commit")
      /\ \E i \in DOMAIN ops : ops[i].op = "fetch" /\ ops[i].ok) =>
       \E i \in DOMAIN ops :
         /\ ops[i].op = "diff"
         /\ ops[i].args = <<OriginRef(targetBranch), HeadRef>>
         /\ ops[i].ok =>
              loc.changedFiles =
                DiffersBetween(Resolve(repo, OriginRef(targetBranch)), Resolve(repo, HeadRef))

ResolverOps == {"fetch", "log", "show", "cat-file", "merge-base", "diff"}

\* C8: a failing git command of the change-set resolution never raises: the stage
\* is not left through its exception path, the resolver hands a path list to the
\* scope filter, and no ESLint or TypeScript exception comes from the resolution.
C8_ResolutionNeverRaises ==
  /\ (\E i \in DOMAIN ops : ops[i].op \in ResolverOps /\ ~ops[i].ok) =>
       /\ pc \notin {"L_throw", "exited"}
       /\ loc.error = ""
  /\ (pc \in {"L_filter", "T_filter"} /\ \E i \in DOMAIN ops : ops[i].op \in ResolverOps) =>
       Range(loc.changedFiles) \subseteq Paths
  /\ (outcomes["ESLint"].kind = "threw") => outcomes["ESLint"].message # "getChangedFiles failed"
  /\ outcomes["TypeScript"].kind # "threw"

\* the branch-deploy procedure and the direct fetch both failed, ESLint still returned
C8_Witness ==
  /\ pc = "L_return"
  /\ \E i \in DOMAIN ops : ops[i].op = "merge-base" /\ ~ops[i].ok
  /\ \E i \in DOMAIN ops : ops[i].op = "fetch" /\ ~ops[i].ok
  /\ loc.result = <<ESLintNothing>>

\* the change-set the configuration selects when no git command fails
ConfiguredChangeSet ==
  LET tip == Resolve(repo, LocalRef(deployBranch))
      merge == IF tip = NoCommit THEN NoCommit ELSE FirstParentMerge(repo, tip)
      master == Resolve(repo, originMasterBranch)
  IN IF envBranchDeployMode /\ merge # NoCommit /\ master # NoCommit
     THEN LET devEnd == repo.parents[merge][2]
          IN DiffersBetween(CHOOSE base \in MergeBases(repo, master, devEnd) : TRUE, devEnd)
     ELSE GitDiff(repo, TypeScriptDiffRevs(sourceBranch, targetBranch), FALSE).files

\* the ESLint stage resolved no change-set of its own
LintResolvedNothing == ~enableESLintCheck \/ fullCheckMode \/ outcomes["ESLint"].kind = "threw"

\* C9: in incremental mode the TypeScript tool is given the TypeScript scope filter of
\* the configuration's change-set, whether or not ESLint is enabled and whatever mode
\* it ran in: stated for the runs in which ESLint was disabled, ran in full mode or
\* threw, and the TypeScript stage met no git failure.
C9_TypeScriptFileList ==
  (/\ pc = "T_return" /\ ~fullTypeScriptCheckMode /\ tsconfig = "present"
   /\ LintResolvedNothing
   /\ \A i \in DOMAIN ops : ops[i].op \in ResolverOps => ops[i].ok) =>
    LET expected == filterTypeScriptFiles(ConfiguredChangeSet, repo, checkDirectories)
    IN IF expected = << >>
       THEN ~\E i \in DOMAIN ops : ops[i].op = "tsc"
       ELSE \E i \in DOMAIN ops : ops[i].op = "tsc" /\ ops[i].args = expected

\* C10: every result of the ESLint and the TypeScript checker has success exactly when
\* its errorCount is 0, and a run whose checkers report warnings only does not fail.
C10_SuccessIsNoErrors ==
  /\ (pc \in {"L_return", "T_return"}) =>
       (loc.result[1].success <=> loc.result[1].errorCount = 0)
  /\ \A c \in {"ESLint", "TypeScript"} :
       (outcomes[c].kind = "returned") => (outcomes[c].success <=> outcomes[c].errorCount = 0)
  /\ (/\ summary
      /\ \A c \in Range(Checkers) : outcomes[c].kind # "threw" /\ outcomes[c].errorCount = 0
      /\ outcomes["Coverage"].success) =>
       ~hasErrors /\ exitCode = <<0>>

\* ESLint and TypeScript both reported warnings and no error, and the run passed
C10_Witness ==
  /\ summary /\ ~hasErrors /\ exitCode = <<0>>
  /\ outcomes["ESLint"].kind = "returned" /\ outcomes["ESLint"].warningCount > 0
  /\ outcomes["TypeScript"].kind = "returned" /\ outcomes["TypeScript"].warningCount > 0
  /\ totalWarnings = 2

(***************************************************************************)
(* Properties of the tool results                                          *)
(***************************************************************************)
\* the counts of the direct line pattern and of the substring pass of runESLintCheck
DirectCounts(lines) ==
  [errorCount |-> Len(SelectSeq(lines, LAMBDA l : Len(l) > 0 /\ StrictError(l))),
   warningCount |->
     Len(SelectSeq(lines, LAMBDA l : Len(l) > 0 /\ ~StrictError(l) /\ StrictWarning(l)))]

SubstringCounts(lines) ==
  [errorCount |-> Len(SelectSeq(lines, LAMBDA l : Includes(l, <<"Error -">>))),
   warningCount |-> Len(SelectSeq(lines, LAMBDA l : Includes(l, <<"Warning -">>)))]

NoFindings(counts) == counts.errorCount = 0 /\ counts.warningCount = 0

\* what the catch block parses: error.stdout || error.message
ParsedOutput(run) == IF run.stdout = << >> THEN FailedMessage ELSE run.stdout

\* C11: for every run of a tool that exits non-zero and whose output the direct pattern
\* finds nothing in, the result is a failure when the second pass finds nothing either,
\* and otherwise carries the counts of the second pass; a TypeScript run that exits
\* non-zero with no recognisable line is a failure as well.
C11_SecondPass ==
  /\ (pc = "L_exec_wait") =>
       \A run \in ESLintRuns :
         (run.exit # 0 /\ NoFindings(DirectCounts(ParsedOutput(run)))) =>
           LET result == runESLintCheck(loc.filesToCheck, run)
               second == SubstringCounts(ParsedOutput(run))
           IN /\ NoFindings(second) => ~result.success
              /\ ~NoFindings(second) =>
                   /\ result.errorCount = second.errorCount
                   /\ result.warningCount = second.warningCount
  /\ (pc = "T_exec_wait") =>
       \A run \in TypeScriptRuns :
         (run.exit # 0 /\ NoFindings(parseTypeScriptOutput(ParsedOutput(run)))) =>
           ~runTypeScriptCheck(loc.filesToCheck, fullTypeScriptCheckMode, run).success

(***************************************************************************)
(* Properties of runStep: prerequisites, summary, disabled checkers        *)
(***************************************************************************)
Tools == {"eslint", "tsc", "install", "ts-coverage"}

\* C12: once the project directory is found not to be a git working tree, the run is
\* over: no checker's tool is started afterwards and no later checker gets a result.
C12_NotARepositoryAborts ==
  (outcomes["ESLint"].kind = "threw" /\ outcomes["ESLint"].message = "not a git repository") =>
    /\ inflight \cap Tools = {}
    /\ outcomes["TypeScript"].kind \notin {"returned", "threw"}
    /\ outcomes["Coverage"].kind \notin {"returned", "threw"}

\* the result of a checker that had nothing to check
TrivialSuccess(c) ==
  /\ outcomes[c].kind = "returned" /\ outcomes[c].success
  /\ outcomes[c].errorCount = 0 /\ outcomes[c].warningCount = 0

\* C13: with no tsconfig.json neither tsc nor the coverage tool is invoked, the
\* TypeScript and the coverage check end as trivial successes, and only ESLint can
\* have failed the run.
C13_MissingPrerequisite ==
  (tsconfig = "absent") =>
    /\ inflight \cap {"tsc", "install", "ts-coverage"} = {}
    /\ \A c \in {"TypeScript", "Coverage"} :
         outcomes[c].kind \in {"none", "disabled"} \/ TrivialSuccess(c)
    /\ hasErrors => FailingOutcome("ESLint")

\* C14: the summary holds exactly one entry per checker, in the order ESLint,
\* TypeScript, coverage, each of them pass, fail, disabled or error; entries are
\* added in that order, and a run that ends without a summary ended before the
\* first checker.
C14_SummaryEntries ==
  /\ Len(checkResults) <= Len(Checkers)
  /\ \A i \in DOMAIN checkResults :
       /\ checkResults[i].checker = Checkers[i]
       /\ checkResults[i].status \in {"pass", "fail", "disabled", "error"}
       /\ outcomes[Checkers[i]].kind # "none"
  /\ (pc = "summary" \/ summary) => Len(checkResults) = Len(Checkers)
  /\ (pc = "exited" /\ ~summary) =>
       /\ checkResults = << >>
       /\ \A c \in Range(Checkers) : outcomes[c].kind = "none"

\* ESLint threw, TypeScript failed, coverage is disabled: three entries all the same
C14_Witness ==
  /\ summary
  /\ checkResults[1].status = "error"
  /\ checkResults[2].status = "fail"
  /\ checkResults[3].status = "disabled"

\* the parameter that switches a checker on
ConfiguredOn(c) ==
  CASE c = "ESLint" -> cfg.enableESLintCheck = "true"
    [] c = "TypeScript" -> cfg.enableTypeScriptCheck = "true"
    [] OTHER -> cfg.enableTypeScriptCoverageReport = "true"

RECURSIVE SumOver(_, _)
SumOver(cs, f) == IF cs = << >> THEN 0 ELSE f[Head(cs)] + SumOver(Tail(cs), f)

\* C15: nothing is run for a checker that is switched off: no operation is issued in
\* its name and its stage is left at once; its entry is `disabled`, a success; the
\* totals are made of the results of the other checkers only, and the run fails only
\* through a checker that is switched on.
C15_DisabledNotInvoked ==
  /\ \A i \in DOMAIN ops : (ops[i].by \in Range(Checkers)) => ConfiguredOn(ops[i].by)
  /\ ~ConfiguredOn("ESLint") => pc \notin (LintStage \ {"lint"})
  /\ ~ConfiguredOn("TypeScript") => pc \notin (TypeScriptStage \ {"ts"})
  /\ ~ConfiguredOn("Coverage") => pc \notin (CoverageStage \ {"cov"})
  /\ \A c \in Range(Checkers) :
       (~ConfiguredOn(c) /\ outcomes[c].kind # "none") =>
         /\ outcomes[c] = Disabled /\ outcomes[c].success
         /\ \E i \in DOMAIN checkResults : checkResults[i] = Entry(c, "disabled", 0, 0, "")
  /\ totalErrors =
       SumOver(Checkers, [c \in Range(Checkers) |->
                            IF ConfiguredOn(c) /\ FailingOutcome(c) THEN outcomes[c].errorCount ELSE 0])
  /\ totalWarnings =
       SumOver(Checkers, [c \in Range(Checkers) |->
                            IF ConfiguredOn(c) THEN outcomes[c].warningCount ELSE 0])
  /\ hasErrors => \E c \in Range(Checkers) : ConfiguredOn(c) /\ FailingOutcome(c)

\* ESLint fails the run with an error while TypeScript and coverage are switched off
C15_Witness ==
  /\ summary /\ hasErrors /\ totalErrors = 1
  /\ ~ConfiguredOn("TypeScript") /\ outcomes["TypeScript"] = Disabled
  /\ ~ConfiguredOn("Coverage") /\ outcomes["Coverage"] = Disabled

(***************************************************************************)
(* Properties of the ESLint scope                                          *)
(***************************************************************************)
\* the check directories as given, without surrounding blanks
GivenDirectories ==
  LET raw == IF cfg.checkDirectories = << >> THEN << <<"src">> >> ELSE cfg.checkDirectories
  IN [i \in DOMAIN raw |-> SelectSeq(raw[i], LAMBDA t : t # " ")]

AllowedExtensions == <<"js", "ts", "jsx", "tsx", "vue">>

\* "<dir>/**/*.<ext>" as a token sequence
ScopePattern(dir, ext) ==
  dir \o <<"/", "**", "/", "*", ".">> \o
    (IF ext = "jsx" THEN <<"js", "x">> ELSE IF ext = "tsx" THEN <<"ts", "x">> ELSE <<ext>>)

\* C16: in full mode performESLintCheck queries no history (no fetch, log, show,
\* cat-file, merge-base or diff) and the list it hands on holds one pattern
\* <dir>/**/*.<ext> per check directory and extension, directory by directory,
\* 5 per directory, none of them a path of the project.
C16_FullModePatterns ==
  (fullCheckMode /\ pc # "lint") =>
    /\ pc \in {"L_revparse_wait", "L_exec", "L_exec_wait", "L_return", "L_throw", "ts"}
    /\ \A i \in DOMAIN ops : ops[i].op \notin ResolverOps
    /\ inflight \cap ResolverOps = {}
    /\ (pc \in {"L_exec", "L_exec_wait", "L_return"}) =>
         /\ Len(loc.filesToCheck) = Len(GivenDirectories) * 5
         /\ \A d \in DOMAIN GivenDirectories : \A e \in 1..5 :
              loc.filesToCheck[(d - 1) * 5 + e] =
                ScopePattern(GivenDirectories[d], AllowedExtensions[e])
         /\ \A i \in DOMAIN loc.filesToCheck : loc.filesToCheck[i] \notin Paths

\* two check directories: ten patterns handed to ESLint
C16_Witness ==
  /\ fullCheckMode /\ pc = "L_exec_wait"
  /\ Len(GivenDirectories) = 2
  /\ Len(loc.filesToCheck) = 10

HasAllowedExtension(file) ==
  \E e \in {<<".", "js">>, <<".", "ts">>, <<".", "js", "x">>, <<".", "ts", "x">>, <<".", "vue">>} :
    Len(file) >= Len(e) /\ SubSeq(file, Len(file) - Len(e) + 1, Len(file)) = e

UnderDirectory(file, dirs) ==
  \E d \in DOMAIN dirs :
    /\ Len(file) > Len(dirs[d])
    /\ SubSeq(file, 1, Len(dirs[d])) = dirs[d]
    /\ file[Len(dirs[d]) + 1] \in {"/", "\\"}

\* a file of the checked-out tree
OnDisk(file) == file \in Paths /\ repo.tree[repo.refs[HeadRef]][file] # 0

\* C17: the list performESLintCheck filters out of the change-set is the change-set's
\* paths, in their order, that end with an allowed extension, lie under a check
\* directory and exist on disk; [src/a.ts, docs/readme.md] with [src] gives [src/a.ts];
\* a deleted path is dropped and nothing is thrown.
C17_LintScope ==
  /\ (~fullCheckMode /\ pc \in {"L_exec", "L_exec_wait", "L_return"}) =>
       /\ loc.filesToCheck =
            SelectSeq(loc.changedFiles,
                      LAMBDA f : HasAllowedExtension(f) /\ UnderDirectory(f, GivenDirectories)
                                 /\ OnDisk(f))
       /\ loc.error = ""
  /\ (pc = "L_filter") =>
       filterFrontendFiles(<<SrcA, DocsReadme>>, repo, << <<"src">> >>) = <<SrcA>>

\* src/old.ts was deleted on the branch: it is in the change-set and not in the scope
C17_Witness ==
  /\ ~fullCheckMode /\ pc = "L_exec"
  /\ loc.changedFiles = <<SrcA, SrcOld>> /\ ~OnDisk(SrcOld)
  /\ loc.filesToCheck = <<SrcA>>
  /\ Len(GivenDirectories) = 2

NoDuplicates(files) ==
  \A i, j \in DOMAIN files : files[i] = files[j] => i = j

\* a tool is running on a list of paths of the change-set
IncrementalRun ==
  \/ pc = "L_exec_wait" /\ ~fullCheckMode
  \/ pc = "T_exec_wait" /\ ~fullTypeScriptCheckMode

\* C18: in incremental mode the list ESLint or tsc is running on is not empty, names
\* no path twice and names only files that exist on disk.
C18_HandedPaths ==
  IncrementalRun =>
    /\ loc.filesToCheck # << >>
    /\ NoDuplicates(loc.filesToCheck)
    /\ \A i \in DOMAIN loc.filesToCheck : OnDisk(loc.filesToCheck[i])

\* tsc runs on src/a.ts while the change-set also names the deleted src/old.ts
C18_Witness ==
  /\ pc = "T_exec_wait" /\ ~fullTypeScriptCheckMode
  /\ loc.changedFiles = <<SrcA, SrcOld>> /\ ~OnDisk(SrcOld)
  /\ loc.filesToCheck = <<SrcA>>

\* C19: filtering a filtered list again changes nothing, for the ESLint scope and
\* for the TypeScript scope.
C19_FiltersIdempotent ==
  /\ (~fullCheckMode /\ pc \in {"L_exec", "L_exec_wait", "L_return"}) =>
       filterFrontendFiles(loc.filesToCheck, repo, checkDirectories) = loc.filesToCheck
  /\ (~fullTypeScriptCheckMode /\ pc \in {"T_exec", "T_exec_wait", "T_return"}) =>
       filterTypeScriptFiles(loc.filesToCheck, repo, checkDirectories) = loc.filesToCheck

\* tsc is about to run on a list that went through both filters
C19_Witness ==
  /\ pc = "T_exec" /\ ~fullTypeScriptCheckMode
  /\ enableESLintCheck /\ ~fullCheckMode
  /\ loc.filesToCheck # << >>
  /\ checkedFiles # << >>

(***************************************************************************)
(* Properties of the coverage check                                        *)
(***************************************************************************)
CoveragePcs ==
  {"C_install", "C_install_wait", "C_config", "C_measure", "C_measure_wait", "C_return", "C_throw"}

\* what the coverage check has done so far, in order
CoverageOps == SelectSeq(ops, LAMBDA o : o.by = "Coverage")

CoverageSteps == [i \in DOMAIN CoverageOps |-> CoverageOps[i].op]

IsPrefix(s, t) == Len(s) <= Len(t) /\ SubSeq(t, 1, Len(s)) = s

StepFailed(name) == \E i \in DOMAIN CoverageOps : CoverageOps[i].op = name /\ ~CoverageOps[i].ok

\* C20: the coverage check reads the manifest, installs the tool iff the manifest does
\* not declare it, writes the manifest, then measures; the measurement starts only
\* after a successful write, and not at all when the install or the write failed.
C20_CoverageOrder ==
  (pc \in CoveragePcs /\ tsconfig = "present") =>
    /\ \/ IsPrefix(CoverageSteps, <<"readManifest", "install", "writeManifest", "ts-coverage">>)
       \/ IsPrefix(CoverageSteps, <<"readManifest", "writeManifest", "ts-coverage">>)
    /\ Len(CoverageSteps) >= 1
    /\ (pc \in {"C_install", "C_install_wait"}) =>
         /\ needInstall(pkg[1])
         /\ CoverageSteps = <<"readManifest">>
    /\ (pc = "C_config") =>
         IF Len(CoverageSteps) = 1 THEN ~needInstall(pkg[1])
         ELSE CoverageSteps = <<"readManifest", "install">> /\ CoverageOps[2].ok
    /\ ("install" \in inflight) => pc = "C_install_wait"
    /\ (pc \in {"C_measure", "C_measure_wait", "C_return"} \/ "ts-coverage" \in inflight) =>
         /\ \E i \in DOMAIN CoverageOps : CoverageOps[i].op = "writeManifest" /\ CoverageOps[i].ok
         /\ pkg[1].exists /\ <<"ts-coverage", "typescript-coverage-report">> \in pkg[1].scripts
         /\ ~StepFailed("install")
    /\ (StepFailed("install") \/ StepFailed("writeManifest")) =>
         /\ pc = "C_throw"
         /\ "ts-coverage" \notin inflight
         /\ \A i \in DOMAIN CoverageOps : CoverageOps[i].op # "ts-coverage"

\* the measurement is running after an install and a write
C20_Witness ==
  /\ pc = "C_measure_wait" /\ "ts-coverage" \in inflight
  /\ CoverageSteps = <<"readManifest", "install", "writeManifest">>

(***************************************************************************)
(* Properties of runStep: options and exit code                            *)
(***************************************************************************)
\* values of the source_branch option
SourceBranchOptions == {"", "*", "feat", "deploy"}

\* the source branch the run with source_branch = option resolves
SourceFor(option) ==
  ResolveSourceBranch(option, cfg.ciCommitRefName, cfg.gitBranch, envBranchDeployMode)

\* the revisions the direct-mode diff of checker `by` names in the run with that option
DiffRevsFor(by, option) ==
  IF by = "ESLint" THEN ESLintDiffRevs(SourceFor(option), targetBranch)
  ELSE TypeScriptDiffRevs(SourceFor(option), targetBranch)

\* C21: in branch-deploy mode the run is the run of every other source_branch option:
\* the source branch every step reads is the same, each diff between named revisions
\* names the revisions the other run names, and the change-set handed to the scope
\* filter is the one the other run gets.
C21_SourceBranchIgnored ==
  envBranchDeployMode =>
    \A option \in SourceBranchOptions :
      /\ SourceFor(option) = sourceBranch
      /\ \A i \in DOMAIN ops :
           (ops[i].op = "diff" /\ ops[i].args[1].kind # "commit") =>
             /\ ops[i].args = DiffRevsFor(ops[i].by, option)
             /\ (i = Len(ops) /\ ops[i].ok /\ pc \in {"L_filter", "T_filter"}) =>
                  loc.changedFiles = GitDiff(repo, DiffRevsFor(ops[i].by, option), FALSE).files

\* source_branch = feat is configured and the TypeScript resolver diffed against HEAD
C21_Witness ==
  /\ envBranchDeployMode /\ cfg.sourceBranch = "feat"
  /\ pc = "T_filter" /\ loc.changedFiles # << >>
  /\ ops # << >> /\ ops[Len(ops)].op = "diff" /\ ops[Len(ops)].ok
  /\ ops[Len(ops)].args = <<OriginRef(targetBranch), HeadRef>>

\* the run ended outside the checkers: chdir or the user script failed
ExceptionOutsideChecker == pc = "exited" /\ ~summary

\* C22: the exit code is non-zero only when an enabled checker returned errorCount > 0
\* or an exception occurred outside a checker; every other run exits with 0.
C22_NonZeroOnlyOnErrors ==
  (pc = "exited" /\ exitCode # <<0>>) =>
    \/ \E c \in Range(Checkers) :
         EnabledChecker(c) /\ outcomes[c].kind = "returned" /\ outcomes[c].errorCount > 0
    \/ ExceptionOutsideChecker

(***************************************************************************)
(* Properties of the branch-deploy traversal                               *)
(***************************************************************************)
\* the git commands the ESLint resolver has completed, in order
ResolutionSteps ==
  SelectSeq(ops, LAMBDA o : o.by = "ESLint" /\ o.op \in ResolverOps)

\* the base..devEnd diff is about to run, running, or has run
EnvDiffIssued ==
  \/ pc \in {"E_diff", "E_diff_wait"}
  \/ \E i \in DOMAIN ResolutionSteps :
       ResolutionSteps[i].op = "diff" /\ ResolutionSteps[i].args[1].kind = "commit"

\* C23: the base..devEnd diff of branch-deploy mode is issued only after the
\* first-parent merge log of the deploy branch returned a commit, its parents were
\* read, devEnd (the second parent) was found to exist and the merge-base with
\* origin/<mainline> was computed, in this order; after a failure of one of them
\* the diff is not issued.
C23_DiffAfterPreconditions ==
  /\ EnvDiffIssued =>
       /\ envBranchDeployMode /\ ~fullCheckMode
       /\ Len(ResolutionSteps) >= 4
       /\ [i \in 1..4 |-> ResolutionSteps[i].op] = <<"log", "show", "cat-file", "merge-base">>
       /\ \A i \in 1..4 : ResolutionSteps[i].ok
       /\ ResolutionSteps[1].args = <<deployBranch>>
       /\ \A i \in DOMAIN ResolutionSteps : i > 4 => ResolutionSteps[i].op \in {"diff", "fetch"}
  /\ (pc \in {"E_diff", "E_diff_wait"}) =>
       /\ Len(ResolutionSteps) = 4
       /\ loc.mergeCommit = FirstParentMerge(repo, Resolve(repo, LocalRef(deployBranch)))
       /\ loc.mergeCommit # NoCommit
       /\ ResolutionSteps[2].args = <<loc.mergeCommit>>
       /\ loc.devEnd = repo.parents[loc.mergeCommit][2]
       /\ ResolutionSteps[3].args = <<loc.devEnd>> /\ loc.devEnd \in repo.objects
       /\ loc.baseCommit \in MergeBases(repo, Resolve(repo, originMasterBranch), loc.devEnd)
  /\ (\E i \in DOMAIN ops :
        /\ ops[i].by = "ESLint"
        /\ \/ ops[i].op \in {"log", "show", "cat-file", "merge-base"} /\ ~ops[i].ok
           \/ ops[i].op = "warning") => ~EnvDiffIssued

\* the diff is running after the four steps
C23_Witness ==
  /\ pc = "E_diff_wait" /\ "diff" \in inflight
  /\ Len(ResolutionSteps) = 4
  /\ loc.baseCommit # loc.devEnd

\* the traversal went on after reading the parents of the merge commit
PastParents == pc \in {"E_catfile", "E_catfile_wait", "E_mergebase", "E_mergebase_wait",
                       "E_diff", "E_diff_wait"}

\* C24: the traversal goes on to merge-base and diff only for a merge commit with
\* exactly two parents; after reading any other number of parents the resolver logs
\* a warning and falls back to direct mode.
C24_ExactlyTwoParents ==
  /\ PastParents => Len(repo.parents[loc.mergeCommit]) = 2
  /\ \A i \in DOMAIN ops :
       (ops[i].op = "show" /\ ops[i].ok /\ Len(repo.parents[ops[i].args[1]]) # 2) =>
         /\ i < Len(ops) /\ ops[i + 1].op = "warning"
         /\ ~EnvDiffIssued

(***************************************************************************)
(* Properties of the checker outcomes                                      *)
(***************************************************************************)
\* the tool of the stage was run
ToolRan(tool) == \E i \in DOMAIN ops : ops[i].op = tool

\* the file count runStep reports for a result: checkedFiles.length for ESLint,
\* checkedFiles for TypeScript
LintFileCount(result) == Len(result.checkedFiles)

\* C25: the file count of a Lint or TypeCheck outcome is -1 exactly when the checker
\* ran its tool in full mode, whether the tool passed or failed; the file count of an
\* incremental outcome is not negative.
C25_FullModeSentinel ==
  /\ (pc = "L_return") =>
       /\ (LintFileCount(loc.result[1]) = -1) <=> (fullCheckMode /\ ToolRan("eslint"))
       /\ ~fullCheckMode => LintFileCount(loc.result[1]) >= 0
  /\ (pc = "T_return") =>
       /\ (loc.result[1].checkedFiles = -1) <=> (fullTypeScriptCheckMode /\ ToolRan("tsc"))
       /\ ~fullTypeScriptCheckMode => loc.result[1].checkedFiles >= 0

\* no path of the change-set is in the ESLint scope
LintScopeEmpty ==
  \A i \in DOMAIN loc.changedFiles :
    ~(/\ HasAllowedExtension(loc.changedFiles[i])
      /\ UnderDirectory(loc.changedFiles[i], GivenDirectories)
      /\ OnDisk(loc.changedFiles[i]))

NothingFound(result) == result.success /\ result.errorCount = 0 /\ result.warningCount = 0

\* C26: in incremental mode a checker whose filtered scope is empty does not run its
\* tool and returns success with no error and no warning.
C26_EmptyScope ==
  /\ (~fullCheckMode /\ pc \in {"L_exec", "L_exec_wait", "L_return"} /\ LintScopeEmpty) =>
       /\ pc = "L_return"
       /\ ~ToolRan("eslint") /\ "eslint" \notin inflight
       /\ NothingFound(loc.result[1])
  /\ (/\ ~fullTypeScriptCheckMode /\ pc \in {"T_exec", "T_exec_wait", "T_return"}
      /\ tsconfig = "present"
      /\ filterTypeScriptFiles(loc.changedFiles, repo, checkDirectories) = << >>) =>
       /\ pc = "T_return"
       /\ ~ToolRan("tsc") /\ "tsc" \notin inflight
       /\ NothingFound(loc.result[1])

\* the branch changed the docs only: nothing is in the ESLint scope
C26_Witness ==
  /\ ~fullCheckMode /\ pc = "L_return"
  /\ loc.changedFiles = <<DocsReadme>> /\ loc.filesToCheck = << >>
  /\ ~ToolRan("eslint")

(***************************************************************************)
(* Properties of runStep: build script and totals                          *)
(***************************************************************************)
UserScriptFailed == \E i \in DOMAIN ops : ops[i].op = "userScript" /\ ~ops[i].ok

\* no checker has done anything
NoCheckerInvoked ==
  /\ \A i \in DOMAIN ops : ops[i].by = "build"
  /\ inflight = {}
  /\ checkResults = << >>
  /\ \A c \in Range(Checkers) : outcomes[c] = NoOutcome
  /\ checkedFiles = << >> /\ ~hasErrors

\* C27: when the user build script fails the process has exited with a non-zero code,
\* no checker was invoked and no summary was printed; when the script was skipped or
\* succeeded the run is at its checkers without an error.
C27_BuildScript ==
  /\ UserScriptFailed =>
       /\ pc = "exited" /\ exitCode # << >> /\ exitCode # <<0>>
       /\ ~summary
       /\ NoCheckerInvoked
  /\ (pc = "lint") =>
       /\ exitCode = << >> /\ NoCheckerInvoked
       /\ \A i \in DOMAIN ops : ops[i].ok

\* the script failed and the process ended with status 1
C27_Witness ==
  /\ UserScriptFailed
  /\ pc = "exited" /\ exitCode = <<1>>

\* what the outcome of a checker adds to a total: the count of a returned result
Contribution(c, field) ==
  IF outcomes[c].kind = "returned"
  THEN (IF field = "errors" THEN outcomes[c].errorCount ELSE outcomes[c].warningCount)
  ELSE 0

\* C28: at the summary totalErrors is the sum of the errorCount, and totalWarnings the
\* sum of the warningCount, of the results the ESLint and TypeScript checks returned;
\* a disabled checker and a checker that threw add nothing.
C28_Totals ==
  summary =>
    /\ totalErrors = Contribution("ESLint", "errors") + Contribution("TypeScript", "errors")
    /\ totalWarnings = Contribution("ESLint", "warnings") + Contribution("TypeScript", "warnings")
    /\ \A c \in {"ESLint", "TypeScript"} :
         (outcomes[c].kind \in {"disabled", "threw"}) =>
           outcomes[c].errorCount = 0 /\ outcomes[c].warningCount = 0

\* ESLint failed with an error and TypeScript passed with a warning
C28_Witness ==
  /\ summary
  /\ outcomes["ESLint"].kind = "returned" /\ outcomes["ESLint"].errorCount = 1
  /\ outcomes["TypeScript"].kind = "returned" /\ outcomes["TypeScript"].success
  /\ outcomes["TypeScript"].warningCount = 1
  /\ totalErrors = 1 /\ totalWarnings = 1

(***************************************************************************)
(* Properties of the scope filters                                         *)
(***************************************************************************)
LintFiltered == pc \in {"L_exec", "L_return"}
TypeScriptFiltered == pc \in {"T_exec", "T_return"}

\* the ESLint scope and the TypeScript scope of the path list of this state
LintScopeOf ==
  IF LintFiltered THEN loc.filesToCheck
  ELSE filterFrontendFiles(loc.changedFiles, repo, checkDirectories)

TypeScriptScopeOf ==
  IF TypeScriptFiltered THEN loc.filesToCheck
  ELSE filterTypeScriptFiles(loc.changedFiles, repo, checkDirectories)

RECURSIVE IsSubsequence(_, _)
IsSubsequence(s, t) ==
  IF s = << >> THEN TRUE
  ELSE IF t = << >> THEN FALSE
  ELSE IF Head(s) = Head(t) THEN IsSubsequence(Tail(s), Tail(t))
  ELSE IsSubsequence(s, Tail(t))

\* a name with .test.ts or .spec.ts in it
IsTestFile(file) ==
  \E i \in 1..(Len(file) - 3) :
    file[i] = "." /\ file[i + 1] \in {"test", "spec"} /\ file[i + 2] = "." /\ file[i + 3] = "ts"

\* a path with a segment node_modules, lib, dist or test above the file
UnderExcludedDirectory(file) ==
  \E i \in 1..(Len(file) - 1) :
    /\ file[i] \in {"node_modules", "lib", "dist", "test"}
    /\ file[i + 1] = "/"
    /\ i = 1 \/ file[i - 1] = "/"

\* C29: for every path list, check-directory list and working tree the TypeScript
\* scope is a subsequence of the ESLint scope and holds no .test.ts / .spec.ts file
\* and no path under node_modules/, lib/, dist/ or test/.
C29_TypeScriptScopeWithinLintScope ==
  (LintFiltered \/ TypeScriptFiltered) =>
    /\ IsSubsequence(TypeScriptScopeOf, LintScopeOf)
    /\ \A i \in DOMAIN TypeScriptScopeOf :
         /\ ~IsTestFile(TypeScriptScopeOf[i])
         /\ ~UnderExcludedDirectory(TypeScriptScopeOf[i])

\* src/lib/a.ts and src/a.ts are both on disk and in the ESLint scope; only src/a.ts
\* is in the TypeScript scope
C29_Witness ==
  /\ pc = "T_exec"
  /\ loc.changedFiles = <<SrcLibA, SrcA>>
  /\ loc.filesToCheck = <<SrcA>>
  /\ LintScopeOf = <<SrcLibA, SrcA>>

\* the predicates of the two filters, by name
LintTest(name, file) ==
  CASE name = "extension" -> \E i \in DOMAIN frontendExtensions : EndsWith(file, frontendExtensions[i])
    [] name = "directory" -> InCheckDirectory(file, checkDirectories)
    [] OTHER -> Exists(repo, file)

TypeScriptTest(name, file) ==
  CASE name = "extension" -> \E i \in DOMAIN typeScriptExtensions : EndsWith(file, typeScriptExtensions[i])
    [] name = "exclusion" -> ~shouldExclude(file)
    [] name = "directory" -> InCheckDirectory(file, checkDirectories)
    [] OTHER -> Exists(repo, file)

\* the orders in which the predicates `names` can be applied
Orders(names) ==
  {order \in [1..Cardinality(names) -> names] :
     \A i, j \in DOMAIN order : order[i] = order[j] => i = j}

\* files.filter(order[1]).filter(order[2])...
RECURSIVE ApplyInOrder(_, _, _)
ApplyInOrder(Test(_, _), order, files) ==
  IF order = << >> THEN files
  ELSE ApplyInOrder(Test, Tail(order), SelectSeq(files, LAMBDA file : Test(Head(order), file)))

\* C30: the list a scope filter returns is the list its predicates give in every order
\* of application, paths in the same order.
C30_PredicateOrder ==
  /\ LintFiltered =>
       \A order \in Orders({"extension", "directory", "existence"}) :
         ApplyInOrder(LintTest, order, loc.changedFiles) = loc.filesToCheck
  /\ TypeScriptFiltered =>
       \A order \in Orders({"extension", "exclusion", "directory", "existence"}) :
         ApplyInOrder(TypeScriptTest, order, loc.changedFiles) = loc.filesToCheck

\* two paths, one kept, one failing the exclusion test only
C30_Witness ==
  /\ pc = "T_exec"
  /\ loc.changedFiles = <<SrcA, SrcLibA>>
  /\ loc.filesToCheck = <<SrcA>>
  /\ Exists(repo, SrcLibA) /\ InCheckDirectory(SrcLibA, checkDirectories)

(***************************************************************************)
(* Properties of the coverage manifest and outcome                         *)
(***************************************************************************)
\* the typeCoverage block createCoverageConfig writes
CoverageBlock(threshold) ==
  [atLeast |-> threshold, detail |-> TRUE, strict |-> TRUE, cache |-> TRUE,
   ignoreFiles |-> "defaults"]

\* createCoverageConfig has just written the manifest
ManifestWritten == pc = "C_config" /\ pc' = "C_measure"

\* C31: the manifest createCoverageConfig writes is the previous manifest with
\* scripts['ts-coverage'] set and typeCoverage replaced by the block with
\* atLeast = threshold, every other key and script untouched; writing it again with
\* the same threshold changes nothing.
C31_ManifestFrame ==
  [][ManifestWritten =>
       /\ pkg'[1].exists = pkg[1].exists
       /\ pkg'[1].devDependency = pkg[1].devDependency
       /\ pkg'[1].other = pkg[1].other
       /\ \A entry \in pkg[1].scripts \cup pkg'[1].scripts :
            entry[1] # "ts-coverage" => (entry \in pkg[1].scripts <=> entry \in pkg'[1].scripts)
       /\ {entry \in pkg'[1].scripts : entry[1] = "ts-coverage"}
            = {<<"ts-coverage", "typescript-coverage-report">>}
       /\ pkg'[1].typeCoverage = <<CoverageBlock(typeScriptCoverageThreshold)>>
       /\ WithCoverageConfig(pkg'[1], typeScriptCoverageThreshold) = pkg'[1]]_vars

\* the manifest declared the tool, another ts-coverage command and another block:
\* after the write the build script is still there and the block holds the threshold
C31_Witness ==
  /\ pc = "C_measure"
  /\ CoverageSteps = <<"readManifest", "writeManifest">>
  /\ pkg[1].scripts = {<<"build", "vite build">>, <<"ts-coverage", "typescript-coverage-report">>}
  /\ pkg[1].typeCoverage = <<CoverageBlock(90)>>
  /\ pkg[1].other = "app"

\* the entry of the coverage check in the summary
CoverageEntry == checkResults[Len(checkResults)]

CoverageReported == pc \in {"summary", "exited"} /\ enableTypeScriptCoverageReport /\ Len(checkResults) = 3

\* C32: a measurement that exits with 1 and printed something gives a failing result
\* and raises nothing; every other failure of the coverage check (another exit code,
\* no output, a failed install or manifest write) raises and becomes an errored
\* entry; either way the run has failed, and the coverage check succeeds only when
\* the measurement exits with 0.
C32_CoverageFailures ==
  /\ (pc = "C_measure_wait") =>
       \A run \in CoverageRuns :
         /\ (run.exit = 1 /\ run.hasOutput) => CoverageOutcome(run) = "fail"
         /\ (run.exit # 0 /\ ~(run.exit = 1 /\ run.hasOutput)) => CoverageOutcome(run) = "throw"
         /\ (CoverageOutcome(run) = "pass") <=> (run.exit = 0)
  /\ (pc = "C_return") =>
       /\ loc.error = ""
       /\ CoverageSteps # << >> /\ CoverageSteps[Len(CoverageSteps)] = "ts-coverage"
       /\ loc.result[1].success <=> CoverageOps[Len(CoverageOps)].ok
  /\ (pc \in CoveragePcs /\ \E i \in DOMAIN CoverageOps :
                              CoverageOps[i].op \in {"install", "writeManifest"} /\ ~CoverageOps[i].ok) =>
       pc = "C_throw"
  /\ (pc = "C_throw") => loc.error # "" /\ loc.result = << >>
  /\ CoverageReported =>
       /\ (outcomes["Coverage"].kind = "threw") =>
            hasErrors /\ CoverageEntry.status = "error" /\ CoverageEntry.message # ""
       /\ (outcomes["Coverage"].kind = "returned" /\ ~outcomes["Coverage"].success) =>
            hasErrors /\ CoverageEntry.status = "fail"
       /\ (CoverageEntry.status = "pass") <=>
            (outcomes["Coverage"].kind = "returned" /\ outcomes["Coverage"].success)

\* the measurement ran and came back with a failing result, nothing was raised
C32_Witness ==
  /\ pc = "C_return" /\ ~loc.result[1].success /\ loc.error = ""
  /\ ~CoverageOps[Len(CoverageOps)].ok

(***************************************************************************)
(* Properties of the source branch and of the reported file count          *)
(***************************************************************************)
\* the current ref: CI_COMMIT_REF_NAME, else GIT_BRANCH, else nothing
CurrentRef ==
  IF cfg.ciCommitRefName # "" THEN cfg.ciCommitRefName
  ELSE IF cfg.gitBranch # "" THEN cfg.gitBranch
  ELSE ""

\* C33: outside branch-deploy mode a source_branch of '*' or nothing resolves to the
\* current ref and any other value to itself, and the source endpoint of every direct
\* diff is origin/<that branch>, or HEAD when the resolved value is empty.
C33_SourceEndpoint ==
  ~envBranchDeployMode =>
    /\ sourceBranch = IF cfg.sourceBranch \in {"", "*"} THEN CurrentRef ELSE cfg.sourceBranch
    /\ \A i \in DOMAIN ops :
         (ops[i].op = "diff" /\ ops[i].args[1].kind # "commit") =>
           ops[i].args[2] = IF sourceBranch = "" THEN HeadRef ELSE OriginRef(sourceBranch)

\* C34: when an incremental TypeScript check ran tsc, the file count of its result is
\* the number of files tsc was run on, whether tsc exited with 0 or not.
C34_FilesChecked ==
  (pc = "T_return" /\ ~fullTypeScriptCheckMode /\ ToolRan("tsc")) =>
    loc.result[1].checkedFiles = Len(loc.filesToCheck)

(***************************************************************************)
(* Properties of the publish script                                        *)
(***************************************************************************)
VersionWrites == SelectSeq(ops, LAMBDA o : o.op = "writeVersion" /\ o.ok)

\* major.minor.(patch + 1) of a version major.minor.patch
PatchBumped(version) ==
  <<version[1], ".", version[3], ".", ToString(ParseIntPart(<<version[5]>>) + 1)>>

ChildClosedWith(code) ==
  /\ inflight = {}
  /\ ops # << >>
  /\ ops[Len(ops)].op = "close"
  /\ ops[Len(ops)].args = <<code>>

\* C35: the publish script rewrites the version of package.json at most once, only
\* after the flow-cli child has closed with exit code 0 and a publish-success marker
\* appeared in its output, and exactly to major.minor.(patch + 1); every path without
\* the rewrite leaves the file as it was and ends the process with a non-zero status.
C35_VersionRewrite ==
  /\ [](/\ Len(VersionWrites) <= 1
        /\ (pc = "exited" /\ VersionWrites = << >>) => exitCode # <<0>>
        /\ (loc.currentVersion # << >> /\ VersionWrites = << >>) =>
             pkg[1].version = loc.currentVersion)
  /\ [][pkg' # pkg =>
          /\ VersionWrites = << >>
          /\ ChildClosedWith(0)
          /\ Includes(loc.outputBuffer, PublishSuccess)
          /\ pkg'[1].version = PatchBumped(pkg[1].version)
          /\ pkg'[1].name = pkg[1].name
          /\ exitCode' = <<0>>]_vars

\* the child closed with code 0, its success message arrived in two chunks, and 1.0.10
\* became 1.0.11
C35_Witness ==
  /\ pc = "exited" /\ exitCode = <<0>>
  /\ ~loc.publishSuccess
  /\ loc.outputBuffer = PublishSuccessWithStepID
  /\ loc.currentVersion = <<"1", ".", "0", ".", "10">>
  /\ pkg[1].version = <<"1", ".", "0", ".", "11">>
  /\ Len(VersionWrites) = 1


====
